---- MODULE Spec2Model ----
(***************************************************************************)
(* Task registry, polling, request routing, progress reporter and the     *)
(* color functions of nano-banana-mcp (src/unnamed/part_002, the MCP       *)
(* server entry point).                                                    *)
(*                                                                         *)
(* Strings are sequences of one-character strings; a task id is a single   *)
(* opaque token.  Durations and clock readings are held in units of UnitMs *)
(* milliseconds, because 30 days in milliseconds exceeds a 32-bit integer. *)
(***************************************************************************)
EXTENDS Integers, Sequences, FiniteSets, TLC

VARIABLES envTtl, DEFAULT_AUTO_TASK_4K, DEFAULT_AUTO_TASK_TTL_MS,
          pollingTasks, pollingTaskTimers, usedIds, now, ticks,
          extTasks, calls, lastGet, statusLog, storeLog, ops

\* The progress session of one tool call and the handler it belongs to.
VARIABLES envInterval, PROGRESS_INTERVAL_MS, progress, disabled, sent,
          unsettled, intervalId, handler, reportLog

progressVars == <<envInterval, PROGRESS_INTERVAL_MS, progress, disabled, sent,
                  unsettled, intervalId, handler, reportLog>>

serverVars == <<envTtl, DEFAULT_AUTO_TASK_4K, DEFAULT_AUTO_TASK_TTL_MS,
                pollingTasks, pollingTaskTimers, usedIds, now, ticks,
                extTasks, calls, lastGet, statusLog, storeLog, ops>>

\* The inputs and results of the image functions applied on their own.
VARIABLES hexTrip, colorKey, borderScan, autoKey

imageVars == <<hexTrip, colorKey, borderScan, autoKey>>

\* One generate call with the requests it has sent, and the credential
\* caches with the calls that are inside getAuthClient.
VARIABLES gen, auth

clientVars == <<gen, auth>>

otherVars == <<progressVars, imageVars, clientVars>>

vars == <<serverVars, otherVars>>

\* ------------------------------------------------------------------ bounds
MaxCalls == 2
MaxTicks == 1
MaxOps == 4
MaxReports == 5
MaxClients == 3

\* ------------------------------------------------------- values and units
\* An optional number is <<>> (null) or <<n>>.
Null == <<>>
Some(n) == <<n>>

\* An optional string (an environment variable, an optional argument).
Unset == [ kind |-> "unset" ]
Text(s) == [ kind |-> "text", text |-> s ]
\* A string holding a decimal number (of UnitMs units).
Numeral(n) == [ kind |-> "number", n |-> n ]

UnitMs == 60 * 1000

\* Node's timers: the largest delay setTimeout accepts, in milliseconds.
TIMEOUT_MAX == 2147483647

\* randomUUID() draws from these; a task id is a one-token string.
TaskIds == { <<"t1">>, <<"t2">> }
SP == " "

\* ---------------------------------------------------------------- strings
RECURSIVE TrimStart(_)
TrimStart(s) ==
  IF s # <<>> /\ Head(s) = SP THEN TrimStart(Tail(s)) ELSE s

RECURSIVE TrimEnd(_)
TrimEnd(s) ==
  IF s # <<>> /\ s[Len(s)] = SP THEN TrimEnd(SubSeq(s, 1, Len(s) - 1)) ELSE s

\* String.prototype.trim
Trim(s) == TrimEnd(TrimStart(s))

UpperChar(c) ==
  IF c = "k" THEN "K" ELSE c

\* String.prototype.toUpperCase
ToUpperCase(s) == [i \in 1..Len(s) |-> UpperChar(s[i])]

LowerChar(c) ==
  CASE c = "T" -> "t" [] c = "R" -> "r" [] c = "U" -> "u" [] c = "E" -> "e"
    [] c = "Y" -> "y" [] c = "S" -> "s" [] c = "O" -> "o" [] c = "N" -> "n"
    [] OTHER -> c

\* String.prototype.toLowerCase
ToLowerCase(s) == [i \in 1..Len(s) |-> LowerChar(s[i])]

\* ---------------------------------------------------------- configuration
\* NANO_BANANA_AUTO_TASK_4K as found in the environment.
Env4k == { Unset, Text(<<>>), Text(<<"t","r","u","e">>),
           Text(<<" ","Y","E","S"," ">>), Text(<<"1">>), Text(<<"o","n">>),
           Text(<<"0">>), Text(<<"o","f","f">>), Text(<<"4","k">>) }

\* NANO_BANANA_AUTO_TASK_TTL_MS as found in the environment: unset, or a
\* decimal number of milliseconds (held in UnitMs units).
ThirtyDays == 30 * ((24 * 60 * 60 * 1000) \div UnitMs)
EnvTtl == { Unset, Numeral(0), Numeral(ThirtyDays) }

\* !raw : unset or the empty string.
Falsy(raw) == raw = Unset \/ raw = Text(<<>>)

\* Number.isFinite(Number(raw)) for a non-empty raw string.
IsFiniteNumber(raw) == raw.kind = "number"

resolveAutoTask4k(raw) ==
  IF Falsy(raw) THEN FALSE
  ELSE LET normalized == ToLowerCase(Trim(raw.text))
       IN  IF normalized \in { <<"1">>, <<"t","r","u","e">>,
                               <<"y","e","s">>, <<"o","n">> } THEN TRUE
           ELSE IF normalized \in { <<"0">>, <<"f","a","l","s","e">>,
                                    <<"n","o">>, <<"o","f","f">> } THEN FALSE
           ELSE FALSE

\* resolveAutoTaskTtlMs keeping a TTL of 0 instead of turning it into null.
resolveAutoTaskTtlMs_ZeroKept(raw) ==
  IF Falsy(raw) THEN Some((20 * 60 * 1000) \div UnitMs)
  ELSE IF ~IsFiniteNumber(raw) THEN Some((20 * 60 * 1000) \div UnitMs)
  ELSE IF raw.n >= 0 THEN Some(raw.n) ELSE Null

resolveAutoTaskTtlMs(raw) ==
  IF Falsy(raw) THEN Some((20 * 60 * 1000) \div UnitMs)
  ELSE IF ~IsFiniteNumber(raw) THEN Some((20 * 60 * 1000) \div UnitMs)
  ELSE IF raw.n > 0 THEN Some(raw.n) ELSE Null

\* null is <<>> here as well: the result is compared with "4K" only.
normalizeImageSize(value) ==
  IF value = Unset THEN Null
  ELSE LET trimmed == Trim(value.text)
       IN  IF trimmed = <<>> THEN Null ELSE Some(ToUpperCase(trimmed))

shouldAutoTaskFor4k(auto4k, toolName, imageSizeArg) ==
  IF ~auto4k THEN FALSE
  ELSE IF toolName # "nano_banana_generate_image" THEN FALSE
  ELSE normalizeImageSize(imageSizeArg) = Some(<<"4","K">>)

\* ------------------------------------------------------------ tool results
\* A CallToolResult is a record that has exactly the fields the object has.
buildErrorResult(message) ==
  [ content |-> <<"Nano Banana error: ">> \o message, isError |-> TRUE ]

\* What handleGenerateImage resolves with: a success carrying the output
\* URIs as structured content, or the error result built in its catch block.
OpResults ==
  { [ content |-> <<"Generated 1 image(s)">>,
      structuredContent |-> [ outputImageUris |-> "gs://out/1" ] ],
    buildErrorResult(<<"upstream">>) }

Has(obj, key) == key \in DOMAIN obj

\* result.isError ? ... : ...
IsErrorSet(result) == Has(result, "isError") /\ result.isError = TRUE

\* { ...a, ...b } on objects held as functions from keys to values.
Spread(a, b) ==
  [ k \in (DOMAIN a) \cup (DOMAIN b) |-> IF k \in DOMAIN b THEN b[k] ELSE a[k] ]

EmptyObject == [ k \in {} |-> TRUE ]

\* new Date(ms).toISOString()
ToISOString(ms) == <<"iso", ms>>

\* ---------------------------------------------------------- task registry
\* The registry as one value: the two maps of the program, and the history
\* of the writes made to task.status and task.result (statusLog, storeLog),
\* which outlives the removal of the entry.
Reg ==
  [ tasks |-> pollingTasks, timers |-> pollingTaskTimers,
    statusLog |-> statusLog, storeLog |-> storeLog ]

SetReg(r) ==
  /\ pollingTasks' = r.tasks
  /\ pollingTaskTimers' = r.timers
  /\ statusLog' = r.statusLog
  /\ storeLog' = r.storeLog

\* map.delete(key)
MapDelete(m, key) == [ k \in (DOMAIN m) \ {key} |-> m[k] ]

\* map.set(key, value)
MapSet(m, key, value) ==
  [ k \in (DOMAIN m) \cup {key} |-> IF k = key THEN value ELSE m[k] ]

\* The delay setTimeout(fn, ms) really waits: a delay below 1 or above
\* TIMEOUT_MAX milliseconds is replaced by 1 millisecond.
setTimeoutDelay(units) ==
  IF units < 1 \/ units > TIMEOUT_MAX \div UnitMs THEN 1 \div UnitMs
  ELSE units

clearPollingTaskTimer(r, taskId) ==
  IF taskId \in DOMAIN r.timers
  THEN [ r EXCEPT !.timers = MapDelete(r.timers, taskId) ]
  ELSE r

\* A timer is held as the clock reading at which its callback is due.
schedulePollingTaskCleanup(r, taskId, ttl, t) ==
  IF ttl = Null THEN r
  ELSE LET c == clearPollingTaskTimer(r, taskId)
       IN  [ c EXCEPT
               !.tasks = IF taskId \in DOMAIN c.tasks
                         THEN MapSet(c.tasks, taskId,
                                Spread(c.tasks[taskId],
                                       [ expiresAt |-> t + ttl[1] ]))
                         ELSE c.tasks,
               !.timers = MapSet(c.timers, taskId,
                                 t + setTimeoutDelay(ttl[1])) ]

\* createPollingTask inserting the task as already working.
createPollingTask_Working(r, taskId, t) ==
  [ r EXCEPT
      !.tasks = MapSet(r.tasks, taskId,
                  [ taskId |-> taskId, status |-> "working", createdAt |-> t ]),
      !.statusLog = MapSet(r.statusLog, taskId, <<"working">>),
      !.storeLog = MapSet(r.storeLog, taskId, <<>>) ]

\* createPollingTask scheduling the removal of the task it creates.
createPollingTask_Expiring(r, taskId, t) ==
  schedulePollingTaskCleanup(
    [ r EXCEPT
        !.tasks = MapSet(r.tasks, taskId,
                    [ taskId |-> taskId, status |-> "queued", createdAt |-> t ]),
        !.statusLog = MapSet(r.statusLog, taskId, <<"queued">>),
        !.storeLog = MapSet(r.storeLog, taskId, <<>>) ],
    taskId, Some(1), t)

createPollingTask(r, taskId, t) ==
  [ r EXCEPT
      !.tasks = MapSet(r.tasks, taskId,
                  [ taskId |-> taskId, status |-> "queued", createdAt |-> t ]),
      !.statusLog = MapSet(r.statusLog, taskId, <<"queued">>),
      !.storeLog = MapSet(r.storeLog, taskId, <<>>) ]

\* setPollingTaskStatus creating an entry for an id that is not registered.
setPollingTaskStatus_Upsert(r, taskId, status) ==
  IF taskId \notin DOMAIN r.tasks
  THEN [ r EXCEPT
           !.tasks = MapSet(r.tasks, taskId,
                       [ taskId |-> taskId, status |-> status ]) ]
  ELSE [ r EXCEPT
           !.tasks = MapSet(r.tasks, taskId,
                       Spread(r.tasks[taskId], [ status |-> status ])),
           !.statusLog = MapSet(r.statusLog, taskId,
                           Append(r.statusLog[taskId], status)) ]

setPollingTaskStatus(r, taskId, status) ==
  IF taskId \notin DOMAIN r.tasks THEN r
  ELSE [ r EXCEPT
           !.tasks = MapSet(r.tasks, taskId,
                       Spread(r.tasks[taskId], [ status |-> status ])),
           !.statusLog = MapSet(r.statusLog, taskId,
                           Append(r.statusLog[taskId], status)) ]

\* storePollingTaskResult ignoring error results.
storePollingTaskResult_DropsErrors(r, taskId, result, ttl, t) ==
  IF taskId \notin DOMAIN r.tasks \/ IsErrorSet(result) THEN r
  ELSE LET w == [ r EXCEPT
                    !.tasks = MapSet(r.tasks, taskId,
                                Spread(r.tasks[taskId],
                                  [ status |-> "completed",
                                    result |-> result ])),
                    !.statusLog = MapSet(r.statusLog, taskId,
                                    Append(r.statusLog[taskId], "completed")),
                    !.storeLog = MapSet(r.storeLog, taskId,
                                   Append(r.storeLog[taskId],
                                     [ at |-> t, result |-> result ])) ]
       IN  schedulePollingTaskCleanup(w, taskId, ttl, t)

\* storePollingTaskResult marking every task completed.
storePollingTaskResult_AlwaysCompleted(r, taskId, result, ttl, t) ==
  IF taskId \notin DOMAIN r.tasks THEN r
  ELSE LET w == [ r EXCEPT
                    !.tasks = MapSet(r.tasks, taskId,
                                Spread(r.tasks[taskId],
                                  [ status |-> "completed",
                                    result |-> result ])),
                    !.statusLog = MapSet(r.statusLog, taskId,
                                    Append(r.statusLog[taskId], "completed")),
                    !.storeLog = MapSet(r.storeLog, taskId,
                                   Append(r.storeLog[taskId],
                                     [ at |-> t, result |-> result ])) ]
       IN  schedulePollingTaskCleanup(w, taskId, ttl, t)

storePollingTaskResult(r, taskId, result, ttl, t) ==
  IF taskId \notin DOMAIN r.tasks THEN r
  ELSE LET status == IF IsErrorSet(result) THEN "failed" ELSE "completed"
           w == [ r EXCEPT
                    !.tasks = MapSet(r.tasks, taskId,
                                Spread(r.tasks[taskId],
                                  [ status |-> status, result |-> result ])),
                    !.statusLog = MapSet(r.statusLog, taskId,
                                    Append(r.statusLog[taskId], status)),
                    !.storeLog = MapSet(r.storeLog, taskId,
                                   Append(r.storeLog[taskId],
                                     [ at |-> t, result |-> result ])) ]
       IN  schedulePollingTaskCleanup(w, taskId, ttl, t)

\* The callback of the removal timer.
cleanupCallback(r, taskId) ==
  [ r EXCEPT !.tasks = MapDelete(r.tasks, taskId),
             !.timers = MapDelete(r.timers, taskId) ]

\* handleGetPollingTask answering an unknown id with a plain result.
handleGetPollingTask_NotFoundOk(tasks, arg) ==
  LET taskId == Trim(arg)
  IN  IF taskId = <<>> THEN buildErrorResult(<<"taskId is required.">>)
      ELSE IF taskId \notin DOMAIN tasks
      THEN [ content |-> <<"Task ">> \o taskId \o <<" not found.">> ]
      ELSE [ content |-> <<"Task ">> \o taskId \o
                           <<" status: ", tasks[taskId].status, ".">>,
             structuredContent |->
               [ taskId |-> taskId, taskStatus |-> tasks[taskId].status ] ]

\* handleGetPollingTask taking the terminal branch for every status.
handleGetPollingTask_AlwaysResult(tasks, arg) ==
  LET taskId == Trim(arg)
  IN  IF taskId = <<>> THEN buildErrorResult(<<"taskId is required.">>)
      ELSE IF taskId \notin DOMAIN tasks
      THEN buildErrorResult(<<"Task ">> \o taskId \o <<" not found.">>)
      ELSE
        LET task == tasks[taskId]
            structuredContent ==
              [ taskId |-> taskId, taskStatus |-> task.status ]
            result ==
              IF Has(task, "result") THEN task.result
              ELSE buildErrorResult(<<"Task ">> \o taskId \o
                     <<" ", task.status, " with no result.">>)
        IN  Spread(result,
              [ structuredContent |->
                  Spread(IF Has(result, "structuredContent")
                         THEN result.structuredContent ELSE EmptyObject,
                         structuredContent) ])

\* handleGetPollingTask replacing the result's structured content instead of
\* merging into it.
handleGetPollingTask_NoMerge(tasks, arg) ==
  LET taskId == Trim(arg)
  IN  IF taskId = <<>> THEN buildErrorResult(<<"taskId is required.">>)
      ELSE IF taskId \notin DOMAIN tasks
      THEN buildErrorResult(<<"Task ">> \o taskId \o <<" not found.">>)
      ELSE
        LET task == tasks[taskId]
            structuredContent ==
              [ taskId |-> taskId, taskStatus |-> task.status ]
        IN  IF task.status = "completed" \/ task.status = "failed"
            THEN Spread(IF Has(task, "result") THEN task.result
                        ELSE buildErrorResult(<<"no result">>),
                        [ structuredContent |-> structuredContent ])
            ELSE [ content |-> <<"Task ">> \o taskId \o
                                 <<" status: ", task.status, ".">>,
                   structuredContent |-> structuredContent ]

handleGetPollingTask(tasks, arg) ==
  LET taskId == Trim(arg)
  IN  IF taskId = <<>> THEN buildErrorResult(<<"taskId is required.">>)
      ELSE IF taskId \notin DOMAIN tasks
      THEN buildErrorResult(<<"Task ">> \o taskId \o <<" not found.">>)
      ELSE
        LET task == tasks[taskId]
            base == [ taskId |-> taskId, taskStatus |-> task.status ]
            structuredContent ==
              IF Has(task, "expiresAt") /\ task.expiresAt # 0
              THEN Spread(base,
                     [ taskExpiresAt |-> ToISOString(task.expiresAt) ])
              ELSE base
        IN  IF task.status = "completed" \/ task.status = "failed"
            THEN LET result ==
                       IF Has(task, "result") THEN task.result
                       ELSE buildErrorResult(<<"Task ">> \o taskId \o
                              <<" ", task.status, " with no result.">>)
                 IN  Spread(result,
                       [ structuredContent |->
                           Spread(IF Has(result, "structuredContent")
                                  THEN result.structuredContent
                                  ELSE EmptyObject,
                                  structuredContent) ])
            ELSE [ content |-> <<"Task ">> \o taskId \o
                                 <<" status: ", task.status, ".">>,
                   structuredContent |-> structuredContent ]

\* ------------------------------------------------------------- tool calls
ToolNames ==
  { "nano_banana_generate_image", "nano_banana_get_task",
    "nano_banana_make_transparent", "nano_banana_resize" }

ImageSizes == { Unset, Text(<<SP,"4","k",SP>>) }

GetArgs == { <<SP>>, <<SP, "t1", SP>>, <<"t2">> }

\* tools/call requests: the tool name, arguments.imageSize, whether
\* params.task is present, and arguments.taskId.
Requests ==
  { [ name |-> "nano_banana_generate_image", imageSize |-> z, task |-> FALSE,
      arg |-> <<>> ] : z \in ImageSizes }
  \cup
  { [ name |-> "nano_banana_generate_image",
      imageSize |-> Text(<<SP,"4","k",SP>>), task |-> TRUE, arg |-> <<>> ] }
  \cup
  { [ name |-> "nano_banana_get_task", imageSize |-> Unset, task |-> FALSE,
      arg |-> a ] : a \in GetArgs }
  \cup
  { [ name |-> "nano_banana_resize", imageSize |-> Unset, task |-> TRUE,
      arg |-> <<>> ] }

\* runTool up to its first suspension: handleGetPollingTask has no await and
\* yields its result at once, the image handlers stay pending until their
\* network calls resolve, and any other name throws.
runTool(name, tasks, arg) ==
  CASE name = "nano_banana_generate_image" -> [ kind |-> "pending" ]
    [] name = "nano_banana_get_task" ->
         [ kind |-> "value", result |-> handleGetPollingTask(tasks, arg) ]
    [] name = "nano_banana_make_transparent" -> [ kind |-> "pending" ]
    [] OTHER -> [ kind |-> "throw", message |-> <<"Unknown tool: ", name>> ]

\* The server is built with a task store, so extra.taskStore is defined in
\* every request.
HasTaskStore == TRUE

\* The handler without the return that ends the task-store branch.
Route_FallThrough(taskParams, policy) ==
  LET autoTask == ~taskParams /\ policy
  IN  (IF taskParams THEN <<"external">> ELSE <<>>) \o
      (IF autoTask THEN <<"registry">> ELSE <<"sync">>)

\* The handler testing the auto-task policy before the task parameters.
Route_PolicyFirst(taskParams, policy) ==
  IF policy THEN <<"registry">>
  ELSE IF taskParams THEN <<"external">>
  ELSE <<"sync">>

\* The branches of the CallToolRequestSchema handler a request goes through,
\* in the order the handler takes them; each branch ends in a return.
Route(taskParams, policy) ==
  LET autoTask == ~taskParams /\ policy
  IN  IF taskParams
      THEN IF ~HasTaskStore THEN <<>> ELSE <<"external">>
      ELSE IF autoTask THEN <<"registry">>
      ELSE <<"sync">>

\* extra.taskStore.createTask / storeTaskResult of the SDK's in-memory store.
createTask(store, id) ==
  MapSet(store, id, [ taskId |-> id, status |-> "working" ])

storeTaskResult(store, id, status, result) ==
  MapSet(store, id, Spread(store[id], [ status |-> status, result |-> result ]))

\* The ids the task store hands out, by order of creation.
ExtIdNames == <<"x1", "x2", "x3", "x4">>
ExtId(i) == <<ExtIdNames[i]>>

NoOutcome == [ kind |-> "none" ]
NoResponse == [ kind |-> "none" ]
NoId == <<>>

\* A continuation waits in the microtask queue: it runs before any timer,
\* any completion of a network call and any new request.
MicrotaskPending ==
  \E i \in DOMAIN calls : calls[i].pc \in { "created", "resolved" }

RecordGet(arg, response) ==
  [ n |-> lastGet.n + 1, arg |-> arg, response |-> response ]

\* The handler up to its first suspension.
CallTool(req, id) ==
  /\ Len(calls) < MaxCalls
  /\ ~MicrotaskPending
  /\ LET i == Len(calls) + 1
         policy == shouldAutoTaskFor4k(DEFAULT_AUTO_TASK_4K, req.name,
                                       req.imageSize)
         route == Route(req.task, policy)
         paths == { route[k] : k \in DOMAIN route }
         ext == "external" \in paths
         reg == "registry" \in paths
         r1 == createPollingTask(Reg, id, now)
         r2 == setPollingTaskStatus(r1, id, "working")
         started == IF ext \/ paths = {} THEN NoOutcome
                    ELSE runTool(req.name, pollingTasks, req.arg)
         queued ==
           [ kind |-> "result",
             result |->
               [ content |-> <<"Task ">> \o id \o
                             <<" queued. Poll with nano_banana_get_task.">>,
                 structuredContent |->
                   [ taskId |-> id, taskStatus |-> r2.tasks[id].status ] ] ]
     IN
       /\ IF reg THEN id \in TaskIds \ usedIds ELSE id = NoId
       /\ extTasks' = IF ext THEN createTask(extTasks, ExtId(i)) ELSE extTasks
       /\ SetReg(IF reg THEN r2 ELSE Reg)
       /\ usedIds' = IF reg THEN usedIds \cup {id} ELSE usedIds
       /\ lastGet' = IF started.kind = "value"
                     THEN RecordGet(req.arg, started.result) ELSE lastGet
       /\ calls' = Append(calls,
            [ req |-> req,
              paths |-> paths,
              task |-> IF ext THEN ExtId(i) ELSE IF reg THEN id ELSE NoId,
              runs |-> IF started = NoOutcome THEN 0 ELSE 1,
              pc |-> IF ext THEN "created"
                     ELSE IF started.kind = "pending" THEN "running"
                     ELSE IF reg THEN "resolved"
                     ELSE "done",
              outcome |-> IF started.kind \in {"value", "throw"}
                          THEN started ELSE NoOutcome,
              rejections |-> 0,
              escaped |-> FALSE,
              response |->
                IF ext THEN NoResponse
                ELSE IF reg THEN queued
                ELSE IF started.kind = "value"
                     THEN [ kind |-> "result", result |-> started.result ]
                ELSE IF started.kind = "throw"
                     THEN [ kind |-> "error", message |-> started.message ]
                ELSE NoResponse ])
  /\ UNCHANGED <<envTtl, DEFAULT_AUTO_TASK_4K, DEFAULT_AUTO_TASK_TTL_MS,
                 now, ticks, ops>>
  /\ UNCHANGED otherVars

\* The handler resumes after `await extra.taskStore.createTask`: it starts
\* the background run and returns the task handle.
ExternalLaunch(i) ==
  /\ i \in DOMAIN calls
  /\ calls[i].pc = "created"
  /\ LET c == calls[i]
         started == runTool(c.req.name, pollingTasks, c.req.arg)
     IN
       /\ lastGet' = IF started.kind = "value"
                     THEN RecordGet(c.req.arg, started.result) ELSE lastGet
       /\ calls' = [ calls EXCEPT ![i] =
            [ c EXCEPT
                !.runs = c.runs + 1,
                !.pc = IF started.kind = "pending" THEN "running"
                       ELSE "resolved",
                !.outcome = IF started.kind = "pending" THEN NoOutcome
                            ELSE started,
                !.response = [ kind |-> "task",
                               task |-> extTasks[c.task] ] ] ]
  /\ UNCHANGED <<envTtl, DEFAULT_AUTO_TASK_4K, DEFAULT_AUTO_TASK_TTL_MS,
                 pollingTasks, pollingTaskTimers, usedIds, now, ticks,
                 extTasks, statusLog, storeLog, ops>>
  /\ UNCHANGED otherVars

\* The network calls of an image handler finish: its promise resolves with
\* one of the handler's results.
OpResolve(i, result) ==
  /\ i \in DOMAIN calls
  /\ calls[i].pc = "running"
  /\ ~MicrotaskPending
  /\ calls' = [ calls EXCEPT ![i] =
       [ calls[i] EXCEPT !.pc = "resolved",
                         !.outcome = [ kind |-> "value", result |-> result ] ] ]
  /\ UNCHANGED <<envTtl, DEFAULT_AUTO_TASK_4K, DEFAULT_AUTO_TASK_TTL_MS,
                 pollingTasks, pollingTaskTimers, usedIds, now, ticks,
                 extTasks, lastGet, statusLog, storeLog, ops>>
  /\ UNCHANGED otherVars

\* What the try/catch around `await runTool(...)` hands to the store.
Delivered(outcome) ==
  IF outcome.kind = "value" THEN outcome.result
  ELSE buildErrorResult(outcome.message)

\* A promise returned by extra.taskStore.storeTaskResult settles either way:
\* the store rejects it when the task is no longer there or was cancelled.
StoreOutcomes == { "stored", "rejected" }

StoreError == <<"Cannot store result">>

\* The code after `await runTool(...)`: the store in the try block settles as
\* `first`; on the external path a rejection, of runTool or of that store,
\* enters the catch block, whose own store settles as `second` and, when
\* rejected, rejects the promise of the background function.
Continue(i, first, second) ==
  /\ i \in DOMAIN calls
  /\ calls[i].pc = "resolved"
  /\ LET c == calls[i]
         ext == "external" \in c.paths
         result == Delivered(c.outcome)
         status == IF IsErrorSet(result) THEN "failed" ELSE "completed"
         tryStored == c.outcome.kind = "value" /\ first = "stored"
         caught == IF c.outcome.kind = "value"
                   THEN buildErrorResult(StoreError)
                   ELSE buildErrorResult(c.outcome.message)
         catchStored == ~tryStored /\ second = "stored"
     IN
       /\ ext \/ (first = "stored" /\ second = "stored")
       /\ (ext /\ c.outcome.kind = "throw") => (first = "stored")
       /\ (ext /\ tryStored) => (second = "stored")
       /\ extTasks' = IF ext /\ tryStored
                      THEN storeTaskResult(extTasks, c.task, status, result)
                      ELSE IF ext /\ catchStored
                      THEN storeTaskResult(extTasks, c.task, "failed", caught)
                      ELSE extTasks
       /\ SetReg(IF "registry" \in c.paths /\ ~ext
                 THEN storePollingTaskResult(Reg, c.task, result,
                        DEFAULT_AUTO_TASK_TTL_MS, now)
                 ELSE Reg)
       /\ calls' = [ calls EXCEPT ![i] =
            [ c EXCEPT
                !.pc = "done",
                !.rejections =
                  IF ~ext \/ tryStored THEN 0
                  ELSE (IF c.outcome.kind = "value" THEN 1 ELSE 0) +
                       (IF catchStored THEN 0 ELSE 1),
                !.escaped = ext /\ ~tryStored /\ ~catchStored,
                !.response =
                  IF c.paths = {"sync"}
                  THEN IF c.outcome.kind = "value"
                       THEN [ kind |-> "result", result |-> c.outcome.result ]
                       ELSE [ kind |-> "error", message |-> c.outcome.message ]
                  ELSE c.response ] ]
  /\ UNCHANGED <<envTtl, DEFAULT_AUTO_TASK_4K, DEFAULT_AUTO_TASK_TTL_MS,
                 usedIds, now, ticks, lastGet, ops>>
  /\ UNCHANGED otherVars

\* ------------------------------------------------------------------- time
TimeSteps == { 1, (20 * 60 * 1000) \div UnitMs }

\* The clock advances; a timer that is due fires before the clock passes it.
Tick(d) ==
  /\ ticks < MaxTicks
  /\ ~MicrotaskPending
  /\ \A id \in DOMAIN pollingTaskTimers : now + d <= pollingTaskTimers[id]
  /\ now' = now + d
  /\ ticks' = ticks + 1
  /\ UNCHANGED <<envTtl, DEFAULT_AUTO_TASK_4K, DEFAULT_AUTO_TASK_TTL_MS,
                 pollingTasks, pollingTaskTimers, usedIds, extTasks, calls,
                 lastGet, statusLog, storeLog, ops>>
  /\ UNCHANGED otherVars

\* The removal timer of a task fires.
TimerFire(id) ==
  /\ id \in DOMAIN pollingTaskTimers
  /\ pollingTaskTimers[id] <= now
  /\ ~MicrotaskPending
  /\ SetReg(cleanupCallback(Reg, id))
  /\ UNCHANGED <<envTtl, DEFAULT_AUTO_TASK_4K, DEFAULT_AUTO_TASK_TTL_MS,
                 usedIds, now, ticks, extTasks, calls, lastGet, ops>>
  /\ UNCHANGED otherVars

\* ------------------------------------------------------ progress reporter
DEFAULT_PROGRESS_INTERVAL_MS == 20000

EnvInterval == { Unset, Numeral(0), Numeral(5000), Text(<<"s","o","o","n">>) }

resolveProgressIntervalMs(raw) ==
  IF Falsy(raw) THEN DEFAULT_PROGRESS_INTERVAL_MS
  ELSE IF ~IsFiniteNumber(raw) THEN DEFAULT_PROGRESS_INTERVAL_MS
  ELSE IF raw.n > 0 THEN raw.n ELSE 0

\* The reporter's closure: its counter, its flag, the notifications handed to
\* extra.sendNotification and those whose promise has not settled yet.
Session ==
  [ progress |-> progress, disabled |-> disabled, sent |-> sent,
    unsettled |-> unsettled ]

SetSession(s) ==
  /\ progress' = s.progress
  /\ disabled' = s.disabled
  /\ sent' = s.sent
  /\ unsettled' = s.unsettled

\* params of a notifications/progress message.
Notification(n, message) ==
  IF message # <<>>
  THEN [ progress |-> n, message |-> message, progressToken |-> "token" ]
  ELSE [ progress |-> n, progressToken |-> "token" ]

\* report that counts a call before looking at the flag.
report_CountsSuppressed(s, message) ==
  IF s.disabled THEN [ s EXCEPT !.progress = s.progress + 1 ]
  ELSE [ s EXCEPT !.progress = s.progress + 1,
                  !.sent = Append(s.sent,
                                  Notification(s.progress + 1, message)),
                  !.unsettled = s.unsettled \cup { Len(s.sent) + 1 } ]

\* report that does not look at the flag.
report_IgnoresDisabled(s, message) ==
  [ s EXCEPT !.progress = s.progress + 1,
             !.sent = Append(s.sent, Notification(s.progress + 1, message)),
             !.unsettled = s.unsettled \cup { Len(s.sent) + 1 } ]

report(s, message) ==
  IF s.disabled THEN s
  ELSE [ s EXCEPT !.progress = s.progress + 1,
                  !.sent = Append(s.sent,
                                  Notification(s.progress + 1, message)),
                  !.unsettled = s.unsettled \cup { Len(s.sent) + 1 } ]

\* The .catch callback of a send.
sendRejected(s) == [ s EXCEPT !.disabled = TRUE ]

\* startHeartbeat that sets the interval timer without a first report.
startHeartbeat_NoFirstReport(s, interval, message) ==
  IF interval <= 0 THEN [ session |-> s, intervalId |-> "none" ]
  ELSE [ session |-> s, intervalId |-> "set" ]

\* startHeartbeat: the session after it and the state of its interval timer.
startHeartbeat(s, interval, message) ==
  IF interval <= 0 THEN [ session |-> s, intervalId |-> "none" ]
  ELSE [ session |-> report(s, message), intervalId |-> "set" ]

\* The function startHeartbeat returns.
stopHeartbeat(id) == IF id = "set" THEN "cleared" ELSE id

\* A finally block that is a plain last statement of the try block.
finallyBlock_SkippedOnError(id, result) ==
  IF IsErrorSet(result) THEN id ELSE stopHeartbeat(id)

\* `finally { stopHeartbeat?.(); }` of handleGenerateImage and
\* handleMakeTransparent.
finallyBlock(id, result) == stopHeartbeat(id)

\* The handlers' ways through their code: image generation, its
\* auto-transparency sub-path, and two methods of handleMakeTransparent.
HandlerPaths == { "generate", "transparency", "gemini", "imgly" }

HeartbeatMessage(path) ==
  CASE path \in { "generate", "transparency" } -> <<"Generating image...">>
    [] path = "gemini" -> <<"Generating transparent image...">>
    [] OTHER -> <<"Removing background...">>

\* The report each path makes before its first await.
FirstReport(path) ==
  CASE path = "generate" -> <<"Requesting image generation.">>
    [] path = "transparency" -> <<"Requesting transparency-ready image.">>
    [] path = "gemini" -> <<"Requesting transparency via Gemini.">>
    [] OTHER -> <<"Running IMG.LY background removal.">>

\* The report a path makes once the generated images are there.
SecondReport(path) ==
  CASE path = "generate" -> <<"Persisting generated images.">>
    [] path = "transparency" -> <<"Applying transparency.">>
    [] OTHER -> <<>>

Logged(origin, before, after) ==
  [ origin |-> origin, emitted |-> Len(after.sent) > Len(before.sent),
    returned |-> handler.pc = "returned" ]

\* A handler is entered with a reporter (withSession) or with null: it starts
\* the heartbeat and makes its first report before its first await.
HandlerStart(path, withSession) ==
  /\ handler.pc = "idle"
  /\ LET hb == startHeartbeat(Session, PROGRESS_INTERVAL_MS,
                              HeartbeatMessage(path))
         s2 == report(hb.session, FirstReport(path))
     IN  IF withSession
         THEN /\ SetSession(s2)
              /\ intervalId' = hb.intervalId
              /\ reportLog' = reportLog \o
                   (IF PROGRESS_INTERVAL_MS <= 0 THEN <<>>
                    ELSE << Logged("heartbeat", Session, hb.session) >>) \o
                   << Logged("explicit", hb.session, s2) >>
         ELSE UNCHANGED <<progress, disabled, sent, unsettled, intervalId,
                          reportLog>>
  /\ handler' = [ pc |-> "awaiting", path |-> path, session |-> withSession,
                  stage |-> 1 ]
  /\ UNCHANGED <<envInterval, PROGRESS_INTERVAL_MS>>
  /\ UNCHANGED <<serverVars, imageVars, clientVars>>

\* The generation call resolved with images: the handler makes its second
\* report and awaits again.
HandlerAdvance ==
  /\ handler.pc = "awaiting"
  /\ handler.stage = 1
  /\ SecondReport(handler.path) # <<>>
  /\ LET s2 == report(Session, SecondReport(handler.path))
     IN  IF handler.session
         THEN /\ SetSession(s2)
              /\ reportLog' = Append(reportLog, Logged("explicit", Session, s2))
         ELSE UNCHANGED <<progress, disabled, sent, unsettled, reportLog>>
  /\ handler' = [ handler EXCEPT !.stage = 2 ]
  /\ UNCHANGED <<envInterval, PROGRESS_INTERVAL_MS, intervalId>>
  /\ UNCHANGED <<serverVars, imageVars, clientVars>>

\* The handler leaves its try block with a result, or through its catch
\* block with an error result; the finally block runs either way.
HandlerReturn(result) ==
  /\ handler.pc = "awaiting"
  /\ intervalId' = finallyBlock(intervalId, result)
  /\ handler' = Spread(handler, [ pc |-> "returned", result |-> result ])
  /\ UNCHANGED <<envInterval, PROGRESS_INTERVAL_MS, progress, disabled, sent,
                 unsettled, reportLog>>
  /\ UNCHANGED <<serverVars, imageVars, clientVars>>

\* The interval timer fires.
HeartbeatTick ==
  /\ intervalId = "set"
  /\ Len(reportLog) < MaxReports
  /\ LET s2 == report(Session, HeartbeatMessage(handler.path))
     IN  /\ SetSession(s2)
         /\ reportLog' = Append(reportLog, Logged("heartbeat", Session, s2))
  /\ UNCHANGED <<envInterval, PROGRESS_INTERVAL_MS, intervalId, handler>>
  /\ UNCHANGED <<serverVars, imageVars, clientVars>>

\* The promise of the k-th sendNotification settles; a rejection runs the
\* .catch callback.
SendSettles(k, fulfilled) ==
  /\ k \in unsettled
  /\ SetSession([ (IF fulfilled THEN Session ELSE sendRejected(Session))
                    EXCEPT !.unsettled = unsettled \ {k} ])
  /\ UNCHANGED <<envInterval, PROGRESS_INTERVAL_MS, intervalId, handler,
                 reportLog>>
  /\ UNCHANGED <<serverVars, imageVars, clientVars>>

\* ---------------------------------------------------------------- colors
\* clampByte on whole numbers, where Math.round changes nothing.
clampByte(value) ==
  IF value < 0 THEN 0 ELSE IF value > 255 THEN 255 ELSE value

HexDigits ==
  << "0", "1", "2", "3", "4", "5", "6", "7", "8", "9",
     "a", "b", "c", "d", "e", "f" >>

UpperHexDigits == << "A", "B", "C", "D", "E", "F" >>

\* Number.prototype.toString(16) of a whole number >= 0.
RECURSIVE toString16(_)
toString16(n) ==
  IF n < 16 THEN << HexDigits[n + 1] >>
  ELSE toString16(n \div 16) \o << HexDigits[(n % 16) + 1] >>

\* String.prototype.padStart(2, "0").
padStart2(str) ==
  IF Len(str) >= 2 THEN str
  ELSE [ k \in 1..(2 - Len(str)) |-> "0" ] \o str

\* toHex of formatHexColor without the padding.
toHex_Unpadded(value) == toString16(clampByte(value))

toHex(value) == padStart2(toString16(clampByte(value)))

formatHexColor(color) ==
  <<"#">> \o toHex(color.r) \o toHex(color.g) \o toHex(color.b)

IsHexDigit(ch) ==
  \/ \E k \in 1..16 : HexDigits[k] = ch
  \/ \E k \in 1..6 : UpperHexDigits[k] = ch

DigitValue(ch) ==
  IF \E k \in 1..16 : HexDigits[k] = ch
  THEN (CHOOSE k \in 1..16 : HexDigits[k] = ch) - 1
  ELSE (CHOOSE k \in 1..6 : UpperHexDigits[k] = ch) + 9

\* parseInt(str, 16) of a string of hex digits.
RECURSIVE parseInt16(_)
parseInt16(str) ==
  IF str = <<>> THEN 0
  ELSE 16 * parseInt16(SubSeq(str, 1, Len(str) - 1)) +
       DigitValue(str[Len(str)])

\* parseHexColor: the color, or the Error it throws.
parseHexColor(input) ==
  LET trimmed == Trim(input)
      hex == IF trimmed # <<>> /\ trimmed[1] = "#"
             THEN SubSeq(trimmed, 2, Len(trimmed)) ELSE trimmed
  IN  IF ~(/\ Len(hex) \in {3, 6}
           /\ \A k \in 1..Len(hex) : IsHexDigit(hex[k]))
      THEN [ kind |-> "throw",
             message |-> <<"Invalid color \"">> \o input \o
                         <<"\". Use hex like #fff or #ffffff.">> ]
      ELSE IF Len(hex) = 3
      THEN [ kind |-> "value",
             color |-> [ r |-> parseInt16(<<hex[1], hex[1]>>),
                         g |-> parseInt16(<<hex[2], hex[2]>>),
                         b |-> parseInt16(<<hex[3], hex[3]>>) ] ]
      ELSE [ kind |-> "value",
             color |-> [ r |-> parseInt16(SubSeq(hex, 1, 2)),
                         g |-> parseInt16(SubSeq(hex, 3, 4)),
                         b |-> parseInt16(SubSeq(hex, 5, 6)) ] ]

\* Colors with byte components: every red value, some green and blue ones.
HexColors ==
  { [ r |-> r, g |-> g, b |-> b ] :
      r \in 0..255, g \in { 0, 10, 171 }, b \in { 9, 16, 255 } }

\* A color is formatted, then the text is parsed.
FormatColor ==
  /\ hexTrip.pc = "color"
  /\ hexTrip' = Spread(hexTrip, [ pc |-> "formatted",
                                  text |-> formatHexColor(hexTrip.color) ])
  /\ UNCHANGED <<colorKey, borderScan, autoKey>>
  /\ UNCHANGED <<serverVars, progressVars, clientVars>>

ParseColor ==
  /\ hexTrip.pc = "formatted"
  /\ hexTrip' = Spread(hexTrip, [ pc |-> "parsed",
                                  parsed |-> parseHexColor(hexTrip.text) ])
  /\ UNCHANGED <<colorKey, borderScan, autoKey>>
  /\ UNCHANGED <<serverVars, progressVars, clientVars>>

\* ------------------------------------------------------------- color key
\* The largest squared distance between two colors with byte components,
\* and the least whole number whose square exceeds it.
MaxDistSq == 3 * 255 * 255
MaxDist == 442

NoArg == <<>>

\* sqrt(d) >= num / den, for whole numbers 0 <= d <= MaxDistSq and den > 0,
\* decided without leaving 32-bit integers.
SqrtAtLeast(d, num, den) ==
  IF num <= 0 THEN TRUE
  ELSE LET q == num \div den
           r == num % den
       IN  IF q > MaxDist THEN FALSE
           ELSE IF d >= (q + 1) * (q + 1) THEN TRUE
           ELSE IF d < q * q THEN FALSE
           ELSE (d - q * q) * den * den >= 2 * q * r * den + r * r

\* Math.round(originalAlpha * ((Math.sqrt(minDistSq) - tolerance) / feather))
\* in the feather band, where the factor lies strictly between 0 and 1:
\* the number of j in 1..originalAlpha with j - 1/2 <= originalAlpha * factor.
ScaledAlpha(originalAlpha, minDistSq, tolerance, feather) ==
  Cardinality({ j \in 1..originalAlpha :
                  SqrtAtLeast(minDistSq,
                              (2 * j - 1) * feather +
                                2 * originalAlpha * tolerance,
                              2 * originalAlpha) })

\* The 0-based offsets of the pixels of a raw buffer.
PixelOffsets(data, channels) ==
  { i \in 0..(Len(data) - 1) : i % channels = 0 }

DistSq(data, i, color) ==
  LET dr == data[i + 1] - color.r
      dg == data[i + 2] - color.g
      db == data[i + 3] - color.b
  IN  dr * dr + dg * dg + db * db

\* The inner loop over options.colors.
MinDistSq(data, i, colors) ==
  LET all == { DistSq(data, i, colors[k]) : k \in DOMAIN colors }
  IN  CHOOSE m \in all : \A n \in all : m <= n

\* The alpha rule comparing with `<` where the code has `<=`.
KeyedAlpha_StrictTolerance(originalAlpha, minDistSq, tolerance, feather) ==
  IF minDistSq < tolerance * tolerance THEN clampByte(originalAlpha * 0)
  ELSE IF feather > 0 /\
          minDistSq < (tolerance + feather) * (tolerance + feather)
  THEN clampByte(ScaledAlpha(originalAlpha, minDistSq, tolerance, feather))
  ELSE clampByte(originalAlpha * 1)

\* The alpha rule measuring the feather band from 0 instead of from the
\* tolerance.
KeyedAlpha_BandFromZero(originalAlpha, minDistSq, tolerance, feather) ==
  IF minDistSq <= tolerance * tolerance THEN clampByte(originalAlpha * 0)
  ELSE IF feather > 0 /\
          minDistSq < (tolerance + feather) * (tolerance + feather)
  THEN clampByte(ScaledAlpha(originalAlpha, minDistSq, 0,
                             tolerance + feather))
  ELSE clampByte(originalAlpha * 1)

\* The new alpha of one pixel: alphaFactor and data[i + 3].
\* The pixel rule making every pixel outside the feather band opaque.
KeyedAlpha_OpaqueOutside(originalAlpha, minDistSq, tolerance, feather) ==
  IF minDistSq <= tolerance * tolerance THEN clampByte(originalAlpha * 0)
  ELSE IF feather > 0 /\
          minDistSq < (tolerance + feather) * (tolerance + feather)
  THEN clampByte(ScaledAlpha(originalAlpha, minDistSq, tolerance, feather))
  ELSE clampByte(255)

KeyedAlpha(originalAlpha, minDistSq, tolerance, feather) ==
  IF minDistSq <= tolerance * tolerance THEN clampByte(originalAlpha * 0)
  ELSE IF feather > 0 /\
          minDistSq < (tolerance + feather) * (tolerance + feather)
  THEN clampByte(ScaledAlpha(originalAlpha, minDistSq, tolerance, feather))
  ELSE clampByte(originalAlpha * 1)

\* applyMultiColorKeyToRaw on a raw RGBA buffer: the buffer it encodes, or
\* the Error it throws.
applyMultiColorKeyToRaw(data, channels, colors, toleranceArg, featherArg) ==
  IF Len(colors) = 0
  THEN [ kind |-> "throw",
         message |-> <<"No background colors detected for transparency.">> ]
  ELSE
    LET tolerance == clampByte(IF toleranceArg = NoArg THEN 12
                               ELSE toleranceArg[1])
        feather == clampByte(IF featherArg = NoArg THEN 0 ELSE featherArg[1])
    IN  [ kind |-> "value",
          data |->
            [ k \in 1..Len(data) |->
                IF (k - 4) \in PixelOffsets(data, channels)
                THEN KeyedAlpha(data[k], MinDistSq(data, k - 4, colors),
                                tolerance, feather)
                ELSE data[k] ] ]

\* Raw RGBA buffers of one or two pixels.
KeyPixels ==
  { <<r, g, b, a>> : r \in { 0, 15, 255 }, g \in { 0, 12, 255 },
                     b \in { 0, 255 }, a \in { 0, 128, 255 } }

KeyBuffers ==
  KeyPixels \cup
  { p \o q : p \in KeyPixels,
             q \in { <<255, 255, 255, 255>>, <<15, 12, 0, 128>> } }

KeyColors ==
  { << [ r |-> 0, g |-> 0, b |-> 0 ] >>,
    << [ r |-> 255, g |-> 255, b |-> 255 ] >>,
    << [ r |-> 12, g |-> 0, b |-> 0 ] >>,
    << [ r |-> 255, g |-> 255, b |-> 255 ], [ r |-> 0, g |-> 0, b |-> 0 ] >> }

ToleranceArgs == { NoArg, <<0>>, <<14>>, <<255>>, <<442>> }

FeatherArgs == { NoArg, <<8>>, <<255>>, <<300>> }

ApplyColorKey ==
  /\ colorKey.pc = "args"
  /\ colorKey' =
       Spread(colorKey,
         [ pc |-> "done",
           out |-> applyMultiColorKeyToRaw(colorKey.data, 4, colorKey.colors,
                                           colorKey.tolerance,
                                           colorKey.feather) ])
  /\ UNCHANGED <<hexTrip, borderScan, autoKey>>
  /\ UNCHANGED <<serverVars, progressVars, clientVars>>

\* The compositor is applied again, to the buffer it produced.
ReapplyColorKey ==
  /\ colorKey.pc = "done"
  /\ colorKey.out.kind = "value"
  /\ colorKey' =
       Spread(colorKey,
         [ pc |-> "again",
           again |-> applyMultiColorKeyToRaw(colorKey.out.data, 4,
                                             colorKey.colors,
                                             colorKey.tolerance,
                                             colorKey.feather) ])
  /\ UNCHANGED <<hexTrip, borderScan, autoKey>>
  /\ UNCHANGED <<serverVars, progressVars, clientVars>>

\* ------------------------------------------------------- border detection
Max(a, b) == IF a >= b THEN a ELSE b
Min(a, b) == IF a <= b THEN a ELSE b

\* Math.round(n / d) for whole numbers n >= 0 and d > 0.
RoundDiv(n, d) == (2 * n + d) \div (2 * d)

\* addSample's quantization without the clamp.
Quantize_Unclamped(value, quantizeStep) ==
  RoundDiv(value, quantizeStep) * quantizeStep

\* clampByte(Math.round(value / quantizeStep) * quantizeStep).
Quantize(value, quantizeStep) ==
  clampByte(RoundDiv(value, quantizeStep) * quantizeStep)

\* The values a `for (let v = 0; v < limit; v += step)` loop takes, in order.
LoopValues(limit, step) ==
  [ k \in 1..(((limit - 1) \div step) + 1) |-> (k - 1) * step ]

RECURSIVE Flatten(_)
Flatten(seqs) ==
  IF seqs = <<>> THEN <<>> ELSE Head(seqs) \o Flatten(Tail(seqs))

\* The color at (x, y) of a raw buffer.
PixelAt(data, width, channels, x, y) ==
  LET idx == (y * width + x) * channels
  IN  [ r |-> data[idx + 1], g |-> data[idx + 2], b |-> data[idx + 3] ]

\* The samples of the two loops, in the order addSample receives them.
BorderSamples(data, width, height, channels, sampleStep) ==
  LET xs == LoopValues(width, sampleStep)
      ys == LoopValues(height, sampleStep)
  IN  Flatten([ k \in DOMAIN xs |->
                  << PixelAt(data, width, channels, xs[k], 0),
                     PixelAt(data, width, channels, xs[k], height - 1) >> ])
      \o
      Flatten([ k \in DOMAIN ys |->
                  << PixelAt(data, width, channels, 0, ys[k]),
                     PixelAt(data, width, channels, width - 1, ys[k]) >> ])

\* The entries of the counts map, in insertion order, after the first n
\* samples.
RECURSIVE Tally(_, _, _)
Tally(samples, n, quantizeStep) ==
  IF n = 0 THEN <<>>
  ELSE LET before == Tally(samples, n - 1, quantizeStep)
           qr == Quantize(samples[n].r, quantizeStep)
           qg == Quantize(samples[n].g, quantizeStep)
           qb == Quantize(samples[n].b, quantizeStep)
           hit == { k \in DOMAIN before :
                      before[k].r = qr /\ before[k].g = qg /\ before[k].b = qb }
       IN  IF hit # {}
           THEN [ k \in DOMAIN before |->
                    IF k \in hit
                    THEN [ before[k] EXCEPT !.count = before[k].count + 1 ]
                    ELSE before[k] ]
           ELSE Append(before, [ r |-> qr, g |-> qg, b |-> qb, count |-> 1 ])

\* Array.prototype.sort((a, b) => b.count - a.count): stable, by falling count.
RECURSIVE SortByCount(_)
SortByCount(entries) ==
  IF entries = <<>> THEN <<>>
  ELSE LET top == CHOOSE k \in DOMAIN entries :
                    /\ \A j \in DOMAIN entries :
                         entries[j].count <= entries[k].count
                    /\ \A j \in 1..(k - 1) :
                         entries[j].count < entries[k].count
           rest == [ j \in 1..(Len(entries) - 1) |->
                       IF j < top THEN entries[j] ELSE entries[j + 1] ]
       IN  << entries[top] >> \o SortByCount(rest)

RECURSIVE SumCounts(_)
SumCounts(entries) ==
  IF entries = <<>> THEN 0 ELSE Head(entries).count + SumCounts(Tail(entries))

\* detectCheckerboardColorsFromBorder; coverage is the fraction num / den.
detectCheckerboardColorsFromBorder(data, info, options) ==
  LET width == info.width
      height == info.height
      channels == info.channels
      sampleStep ==
        IF options.sampleStep # NoArg THEN options.sampleStep[1]
        ELSE Max(1, RoundDiv(Min(width, height), 64))
      quantizeStep ==
        Max(1, IF options.quantizeStep # NoArg THEN options.quantizeStep[1]
               ELSE 8)
      maxColors ==
        Max(1, IF options.maxColors # NoArg THEN options.maxColors[1] ELSE 2)
      samples == BorderSamples(data, width, height, channels, sampleStep)
      sampleCount == Len(samples)
      sorted == SortByCount(Tally(samples, Len(samples), quantizeStep))
      top == SubSeq(sorted, 1, Min(maxColors, Len(sorted)))
  IN  [ colors |-> [ k \in DOMAIN top |->
                       [ r |-> top[k].r, g |-> top[k].g, b |-> top[k].b ] ],
        sampleCount |-> sampleCount,
        coverage |-> IF sampleCount > 0
                     THEN [ num |-> SumCounts(top), den |-> sampleCount ]
                     ELSE [ num |-> 0, den |-> 1 ],
        samples |-> samples ]

\* A raw RGBA image whose border pixels have one color and whose interior
\* pixels another.
SolidBorderImage(width, height, border, interior) ==
  Flatten([ k \in 1..(width * height) |->
              LET x == (k - 1) % width
                  y == (k - 1) \div width
                  c == IF x = 0 \/ y = 0 \/ x = width - 1 \/ y = height - 1
                       THEN border ELSE interior
              IN  << c.r, c.g, c.b, 255 >> ])

ImageSizes2D == { <<3, 3>>, <<4, 3>>, <<3, 5>> }

BorderColors ==
  { [ r |-> r, g |-> g, b |-> b ] :
      r \in { 0, 12, 255 }, g \in { 0, 15, 128 }, b \in { 0, 255 } }

InteriorColors ==
  { [ r |-> 0, g |-> 0, b |-> 0 ], [ r |-> 255, g |-> 255, b |-> 255 ] }

DetectOptions ==
  { [ sampleStep |-> s, quantizeStep |-> q, maxColors |-> m ] :
      s \in { NoArg, <<2>> }, q \in { NoArg, <<0>>, <<1>>, <<16>> },
      m \in { NoArg, <<1>> } }

DetectBorder ==
  /\ borderScan.pc = "args"
  /\ borderScan' =
       Spread(borderScan,
         [ pc |-> "done",
           out |-> detectCheckerboardColorsFromBorder(
                     borderScan.data, borderScan.info, borderScan.options) ])
  /\ UNCHANGED <<hexTrip, colorKey, autoKey>>
  /\ UNCHANGED <<serverVars, progressVars, clientVars>>

\* -------------------------------------------------- auto key transparency
\* distances.sort((a, b) => a - b)
RECURSIVE SortAscending(_)
SortAscending(values) ==
  IF values = <<>> THEN <<>>
  ELSE LET least == CHOOSE k \in DOMAIN values :
                      /\ \A j \in DOMAIN values : values[k] <= values[j]
                      /\ \A j \in 1..(k - 1) : values[j] > values[k]
           rest == [ j \in 1..(Len(values) - 1) |->
                       IF j < least THEN values[j] ELSE values[j + 1] ]
       IN  << values[least] >> \o SortAscending(rest)

\* The percentile index taken in the middle of the sorted distances.
PercentileIndex_Median(n) == n \div 2

\* Math.floor(distances.length * 0.9)
PercentileIndex(n) == (9 * n) \div 10

\* Math.ceil(Math.sqrt(d)) for a whole number 0 <= d <= MaxDistSq.
CeilSqrt(d) ==
  CHOOSE q \in 0..MaxDist : q * q >= d /\ (q = 0 \/ (q - 1) * (q - 1) < d)

\* The least squared distance from a sample to the selected colors.
SampleDistSq(sample, colors) ==
  LET sq(k) == (sample.r - colors[k].r) * (sample.r - colors[k].r) +
               (sample.g - colors[k].g) * (sample.g - colors[k].g) +
               (sample.b - colors[k].b) * (sample.b - colors[k].b)
  IN  CHOOSE m \in { sq(k) : k \in DOMAIN colors } :
        \A k \in DOMAIN colors : m <= sq(k)

\* What reading distances[index] gives: the element, or undefined (Null).
ElementAt(values, index) ==
  IF index + 1 \in DOMAIN values THEN Some(values[index + 1]) ELSE Null

\* The tolerance computed when options.tolerance is not a number; NaN
\* (Null), which clampByte hands back, when the percentile read is undefined.
EstimateTolerance(samples, selectedColors) ==
  LET distances == SortAscending([ k \in DOMAIN samples |->
                                     SampleDistSq(samples[k], selectedColors) ])
      percentileIndex == PercentileIndex(Len(distances))
      percentile == IF Len(distances) > 0
                    THEN ElementAt(distances, percentileIndex) ELSE Some(0)
  IN  IF percentile = Null THEN Null
      ELSE Some(clampByte(CeilSqrt(percentile[1]) + 6))

\* The choice of colors asking for more than half of the samples.
SelectColors_StrictCoverage(detected, fallbackColor) ==
  IF 2 * detected.coverage.num <= detected.coverage.den \/
     Len(detected.colors) = 0
  THEN IF fallbackColor # NoArg
       THEN [ kind |-> "value", selectedColors |-> << fallbackColor[1] >>,
              usedFallback |-> TRUE ]
       ELSE [ kind |-> "throw",
              message |->
                <<"Failed to detect background colors for transparency.">> ]
  ELSE [ kind |-> "value", selectedColors |-> detected.colors,
         usedFallback |-> FALSE ]

\* The choice between the detected colors and the fallback color.
SelectColors(detected, fallbackColor) ==
  IF 2 * detected.coverage.num < detected.coverage.den \/
     Len(detected.colors) = 0
  THEN IF fallbackColor # NoArg
       THEN [ kind |-> "value", selectedColors |-> << fallbackColor[1] >>,
              usedFallback |-> TRUE ]
       ELSE [ kind |-> "throw",
              message |->
                <<"Failed to detect background colors for transparency.">> ]
  ELSE [ kind |-> "value", selectedColors |-> detected.colors,
         usedFallback |-> FALSE ]

\* A raw RGBA image, fully opaque, whose pixels take the colors of a palette
\* in turn, row after row.
PaletteImage(width, height, palette) ==
  Flatten([ k \in 1..(width * height) |->
              LET c == palette[((k - 1) % Len(palette)) + 1]
              IN  << c.r, c.g, c.b, 255 >> ])

Rgb(r, g, b) == [ r |-> r, g |-> g, b |-> b ]

Palettes ==
  { << Rgb(255, 255, 255) >>,
    << Rgb(255, 255, 255), Rgb(0, 0, 0) >>,
    << Rgb(250, 250, 250), Rgb(255, 255, 255) >>,
    << Rgb(255, 255, 255), Rgb(0, 0, 0), Rgb(255, 0, 0) >>,
    << Rgb(255, 255, 255), Rgb(0, 0, 0), Rgb(255, 0, 0), Rgb(12, 15, 0) >> }

AutoKeySizes == { <<3, 3>>, <<4, 3>> }

AutoKeyOptions ==
  { [ fallbackColor |-> c, tolerance |-> t, feather |-> f,
      sampleStep |-> NoArg, quantizeStep |-> NoArg, maxColors |-> m ] :
      c \in { NoArg, << Rgb(0, 0, 0) >>, << Rgb(250, 250, 250) >> },
      t \in { NoArg, <<20>> }, f \in { NoArg, <<8>> },
      m \in { NoArg, <<1>> } }

\* applyAutoKeyTransparency from the decoded image to the await of the
\* compositor: detection, choice of colors, tolerance.
AutoKeySelect ==
  /\ autoKey.pc = "decoded"
  /\ LET detected == detectCheckerboardColorsFromBorder(
                       autoKey.data, autoKey.info,
                       [ sampleStep |-> autoKey.options.sampleStep,
                         quantizeStep |-> autoKey.options.quantizeStep,
                         maxColors |-> autoKey.options.maxColors ])
         chosen == SelectColors(detected, autoKey.options.fallbackColor)
     IN  autoKey' =
           IF chosen.kind = "throw"
           THEN Spread(autoKey, [ pc |-> "done", detected |-> detected,
                                  out |-> chosen ])
           ELSE Spread(autoKey,
                  [ pc |-> "selected",
                    detected |-> detected,
                    selectedColors |-> chosen.selectedColors,
                    usedFallback |-> chosen.usedFallback,
                    tolerance |->
                      IF autoKey.options.tolerance # NoArg
                      THEN autoKey.options.tolerance
                      ELSE EstimateTolerance(detected.samples,
                                             chosen.selectedColors) ])
  /\ UNCHANGED <<hexTrip, colorKey, borderScan>>
  /\ UNCHANGED <<serverVars, progressVars, clientVars>>

\* The compositor is applied and applyAutoKeyTransparency returns; with a
\* NaN tolerance no comparison of the compositor succeeds and every alpha
\* is kept.
AutoKeyComposite ==
  /\ autoKey.pc = "selected"
  /\ LET keyed == IF autoKey.tolerance = Null
                  THEN [ kind |-> "value", data |-> autoKey.data ]
                  ELSE applyMultiColorKeyToRaw(autoKey.data,
                                               autoKey.info.channels,
                                               autoKey.selectedColors,
                                               autoKey.tolerance,
                                               autoKey.options.feather)
     IN  autoKey' =
           Spread(autoKey,
             [ pc |-> "done",
               out |-> IF keyed.kind = "throw" THEN keyed
                       ELSE [ kind |-> "value",
                              outputBuffer |-> keyed.data,
                              colors |-> autoKey.selectedColors,
                              coverage |-> autoKey.detected.coverage,
                              usedFallback |-> autoKey.usedFallback ] ])
  /\ UNCHANGED <<hexTrip, colorKey, borderScan>>
  /\ UNCHANGED <<serverVars, progressVars, clientVars>>

\* ------------------------------------------------------ credential caches
\* The forms of GOOGLE_SERVICE_ACCOUNT_JSON: absent, a JSON text, a file path.
ServiceAccountEnv == { "unset", "inline", "path" }

SetCaller(a, i, caller) == [ a EXCEPT !.callers[i] = caller ]

\* loadServiceAccount, called by getAuthClient for caller i, up to the point
\* where getAuthClient is suspended: on the promise of loadServiceAccount,
\* already settled ("resume"), or behind the file read ("reading").
loadServiceAccount(a, i) ==
  IF a.cachedServiceAccount # Null
  THEN SetCaller(a, i, [ pc |-> "resume", loaded |-> TRUE ])
  ELSE IF a.env = "unset"
  THEN SetCaller(a, i, [ pc |-> "resume", loaded |-> FALSE ])
  ELSE IF a.env = "inline"
  THEN SetCaller([ a EXCEPT !.cachedServiceAccount = Some(1) ], i,
                 [ pc |-> "resume", loaded |-> TRUE ])
  ELSE SetCaller(a, i, [ pc |-> "reading" ])

\* getAuthClient up to its first suspension or its return.
getAuthClient(a, i) ==
  IF a.cachedAuthClient = Null
  THEN loadServiceAccount(a, i)
  ELSE SetCaller(a, i, [ pc |-> "done", client |-> a.cachedAuthClient ])

\* A continuation of some caller is in the microtask queue.
AuthMicrotaskPending ==
  \E i \in DOMAIN auth.callers : auth.callers[i].pc = "resume"

\* A tool call reaches getAuthClient.
GetAuthClientCall(i) ==
  /\ auth.pc = "run"
  /\ auth.callers[i].pc = "idle"
  /\ ~AuthMicrotaskPending
  /\ auth' = getAuthClient(auth, i)
  /\ UNCHANGED gen
  /\ UNCHANGED <<serverVars, progressVars, imageVars>>

\* readFile settles: loadServiceAccount parses and caches the account, or
\* rejects, and the getAuthClient call waiting for it is resumed.
ReadFileSettles(i, fulfilled) ==
  /\ auth.pc = "run"
  /\ auth.callers[i].pc = "reading"
  /\ ~AuthMicrotaskPending
  /\ auth' =
       IF fulfilled
       THEN SetCaller([ auth EXCEPT !.cachedServiceAccount = Some(1) ], i,
                      [ pc |-> "resume", loaded |-> TRUE ])
       ELSE SetCaller(auth, i, [ pc |-> "resume", loaded |-> FALSE ])
  /\ UNCHANGED gen
  /\ UNCHANGED <<serverVars, progressVars, imageVars>>

\* getAuthClient after its await: a GoogleAuth is built, the promise of its
\* client is assigned to the cache and returned; or the rejection of
\* loadServiceAccount is passed on.
GetAuthClientResume(i) ==
  /\ auth.pc = "run"
  /\ auth.callers[i].pc = "resume"
  /\ auth' =
       IF auth.callers[i].loaded
       THEN LET client == Some(auth.constructed + 1)
            IN  SetCaller([ auth EXCEPT
                              !.constructed = auth.constructed + 1,
                              !.cachedAuthClient = client,
                              !.assignments = Append(auth.assignments, client) ],
                          i, [ pc |-> "done", client |-> client ])
       ELSE SetCaller(auth, i, [ pc |-> "threw" ])
  /\ UNCHANGED gen
  /\ UNCHANGED <<serverVars, progressVars, imageVars>>

\* ------------------------------------------------------ one generate call
\* resolveGcsBucket / resolveOutputGcsBucket: the argument, else the
\* default, trimmed; null when absent or blank.
resolveBucket(arg, default) ==
  LET bucket == IF arg # Unset THEN arg ELSE default
  IN  IF bucket = Unset THEN Null
      ELSE IF Trim(bucket.text) # <<>> THEN Some(Trim(bucket.text)) ELSE Null

\* DEFAULT_OUTPUT_GCS_BUCKET
DefaultOutputGcsBucket(envOutput, envGcs) ==
  IF envOutput # Unset THEN envOutput ELSE envGcs

RefBucketMissing ==
  <<"GCS bucket not set. Provide gcsBucket or set NANO_BANANA_GCS_BUCKET.">>

OutputBucketMissing ==
  <<"Output GCS bucket not set. Provide outputGcsBucket or set NANO_BANANA_OUTPUT_GCS_BUCKET (or NANO_BANANA_GCS_BUCKET).">>

NoParts ==
  <<"Provide a prompt or at least one reference image (inline or GCS URI).">>

MimeUnknown(resolvedPath) ==
  <<"MIME type not provided and could not be inferred for ">> \o
  resolvedPath \o <<".">>

\* The error of a rejected upload, request or credential lookup.
Rejected == <<"request failed">>

IndexChar(i) == << "1", "2", "3" >>[i]

\* `gs://${bucket}/${objectName}` of the i-th reference image.
FileUri(bucket, i, image) ==
  <<"gs://">> \o bucket \o <<"/", IndexChar(i), "-">> \o image.path

\* What the network has seen of the call, in order.
NetEvent(kind, ref, parts) == [ kind |-> kind, ref |-> ref, parts |-> parts ]

\* The catch block of the handler: the call ends with an error result.
Failed(g, message) ==
  [ g EXCEPT !.pc = "done", !.out = [ isError |-> TRUE, message |-> message ] ]

Succeeded(g) ==
  [ g EXCEPT !.pc = "done", !.out = [ isError |-> FALSE, message |-> <<>> ] ]

\* generateImage from its entry to the first upload or to the end of the
\* reference loop.
generateImageStart(g) ==
  LET parts == IF g.args.prompt # Unset /\ Trim(g.args.prompt.text) # <<>>
               THEN << [ kind |-> "text", value |-> Trim(g.args.prompt.text) ] >>
               ELSE <<>>
      bucket == resolveBucket(g.args.gcsBucket, g.env.gcsBucket)
  IN  IF Len(g.args.referenceImagePaths) > 0
      THEN IF bucket = Null THEN Failed(g, RefBucketMissing)
           ELSE [ g EXCEPT !.pc = "upload", !.parts = parts,
                           !.bucket = bucket[1], !.i = 1 ]
      ELSE [ g EXCEPT !.pc = "request", !.parts = parts ]

\* One turn of the loop up to the upload request: the MIME type, the file
\* read and the auth client, then the POST to the bucket.
uploadBegin(g, ready) ==
  LET image == g.args.referenceImagePaths[g.i]
  IN  IF ~image.mimeKnown THEN Failed(g, MimeUnknown(image.path))
      ELSE IF ~ready THEN Failed(g, Rejected)
      ELSE [ g EXCEPT !.pc = "uploadWait",
                      !.net = Append(g.net, NetEvent("upload-sent", g.i, <<>>)) ]

\* The loop going on to the next image when an upload is rejected.
uploadSettled_SkipsFailedUpload(g, fulfilled) ==
  LET image == g.args.referenceImagePaths[g.i]
      fileUri == FileUri(g.bucket, g.i, image)
      next == IF g.i + 1 > Len(g.args.referenceImagePaths)
              THEN "request" ELSE "upload"
  IN  IF ~fulfilled
      THEN [ g EXCEPT
               !.pc = next, !.i = g.i + 1,
               !.net = Append(g.net, NetEvent("upload-failed", g.i, <<>>)) ]
      ELSE [ g EXCEPT
               !.pc = next,
               !.i = g.i + 1,
               !.net = Append(g.net, NetEvent("upload-done", g.i, <<>>)),
               !.uploadedUris = Append(g.uploadedUris, fileUri),
               !.parts = Append(g.parts,
                           [ kind |-> "fileData", value |-> fileUri ]) ]

\* The upload settles: its URI joins uploadedUris and parts and the loop
\* goes on, or the rejection leaves generateImage.
uploadSettled(g, fulfilled) ==
  LET image == g.args.referenceImagePaths[g.i]
      fileUri == FileUri(g.bucket, g.i, image)
      next == IF g.i + 1 > Len(g.args.referenceImagePaths)
              THEN "request" ELSE "upload"
  IN  IF ~fulfilled
      THEN Failed([ g EXCEPT
                      !.net = Append(g.net,
                                NetEvent("upload-failed", g.i, <<>>)) ],
                  Rejected)
      ELSE [ g EXCEPT
               !.pc = next,
               !.i = g.i + 1,
               !.net = Append(g.net, NetEvent("upload-done", g.i, <<>>)),
               !.uploadedUris = Append(g.uploadedUris, fileUri),
               !.parts = Append(g.parts,
                           [ kind |-> "fileData", value |-> fileUri ]) ]

\* After the loop: the parts must not be empty, the auth client is
\* fetched, and the generation request is sent with the parts.
requestBegin(g, ready) ==
  IF Len(g.parts) = 0 THEN Failed(g, NoParts)
  ELSE IF ~ready THEN Failed(g, Rejected)
  ELSE [ g EXCEPT !.pc = "requestWait",
                  !.net = Append(g.net,
                            NetEvent("generate-sent", 0, g.parts)) ]

\* The response arrives and the handler persists the images:
\* persistOutputImages with requireGcsUpload needs the output bucket before
\* it uploads the first image.
requestSettled(g, fulfilled, images) ==
  LET outputBucket ==
        resolveBucket(g.args.outputGcsBucket,
                      DefaultOutputGcsBucket(g.env.outputGcsBucket,
                                             g.env.gcsBucket))
  IN  IF ~fulfilled THEN Failed(g, Rejected)
      ELSE IF images = 0 THEN Succeeded(g)
      ELSE IF outputBucket = Null THEN Failed(g, OutputBucketMissing)
      ELSE [ g EXCEPT !.pc = "outputWait",
                      !.net = Append(g.net, NetEvent("output-sent", 1, <<>>)) ]

\* The upload of the generated image settles and the files are written.
outputSettled(g, fulfilled) ==
  IF fulfilled THEN Succeeded(g) ELSE Failed(g, Rejected)

GenerateStart ==
  /\ gen.pc = "args"
  /\ gen' = generateImageStart(gen)
  /\ UNCHANGED auth
  /\ UNCHANGED <<serverVars, progressVars, imageVars>>

UploadBegin(ready) ==
  /\ gen.pc = "upload"
  /\ gen' = uploadBegin(gen, ready)
  /\ UNCHANGED auth
  /\ UNCHANGED <<serverVars, progressVars, imageVars>>

UploadSettles(fulfilled) ==
  /\ gen.pc = "uploadWait"
  /\ gen' = uploadSettled(gen, fulfilled)
  /\ UNCHANGED auth
  /\ UNCHANGED <<serverVars, progressVars, imageVars>>

RequestBegin(ready) ==
  /\ gen.pc = "request"
  /\ gen' = requestBegin(gen, ready)
  /\ UNCHANGED auth
  /\ UNCHANGED <<serverVars, progressVars, imageVars>>

RequestSettles(fulfilled, images) ==
  /\ gen.pc = "requestWait"
  /\ gen' = requestSettled(gen, fulfilled, images)
  /\ UNCHANGED auth
  /\ UNCHANGED <<serverVars, progressVars, imageVars>>

OutputSettles(fulfilled) ==
  /\ gen.pc = "outputWait"
  /\ gen' = outputSettled(gen, fulfilled)
  /\ UNCHANGED auth
  /\ UNCHANGED <<serverVars, progressVars, imageVars>>

\* The reference images given by path: none, one, two, and two of which
\* the second has no MIME type that can be inferred.
ReferencePaths ==
  { <<>>,
    << [ path |-> <<"a.png">>, mimeKnown |-> TRUE ] >>,
    << [ path |-> <<"a.png">>, mimeKnown |-> TRUE ],
       [ path |-> <<"b.png">>, mimeKnown |-> TRUE ] >>,
    << [ path |-> <<"a.png">>, mimeKnown |-> TRUE ],
       [ path |-> <<"c">>, mimeKnown |-> FALSE ] >> }

GenerateArgs ==
  { [ prompt |-> p, referenceImagePaths |-> r, gcsBucket |-> b,
      outputGcsBucket |-> o ] :
      p \in { Unset, Text(<<"c","a","t">>) },
      r \in ReferencePaths,
      b \in { Unset, Text(<<SP>>), Text(<<"r">>) },
      o \in { Unset, Text(<<"o">>) } }

\* NANO_BANANA_GCS_BUCKET and NANO_BANANA_OUTPUT_GCS_BUCKET.
GenerateEnv ==
  { [ gcsBucket |-> b, outputGcsBucket |-> o ] :
      b \in { Unset, Text(<<"e">>) }, o \in { Unset, Text(<<"p">>) } }

\* ---------------------------------------------------------- specification
EmptyMap == [ k \in {} |-> TRUE ]

ServerInit ==
  /\ envTtl \in EnvTtl
  /\ DEFAULT_AUTO_TASK_4K \in { resolveAutoTask4k(e) : e \in Env4k }
  /\ DEFAULT_AUTO_TASK_TTL_MS = resolveAutoTaskTtlMs(envTtl)
  /\ pollingTasks = EmptyMap
  /\ pollingTaskTimers = EmptyMap
  /\ usedIds = {}
  /\ now = 0
  /\ ticks = 0
  /\ extTasks = EmptyMap
  /\ calls = <<>>
  /\ lastGet = [ n |-> 0, arg |-> <<>>, response |-> [ content |-> <<>> ] ]
  /\ statusLog = EmptyMap
  /\ storeLog = EmptyMap
  /\ ops = 0

\* No tool call with a progress token is in progress.
ProgressIdle ==
  /\ envInterval = Unset
  /\ PROGRESS_INTERVAL_MS = resolveProgressIntervalMs(envInterval)
  /\ progress = 0
  /\ disabled = FALSE
  /\ sent = <<>>
  /\ unsettled = {}
  /\ intervalId = "none"
  /\ handler = [ pc |-> "idle" ]
  /\ reportLog = <<>>

\* No image function is being applied.
ImageIdle ==
  /\ hexTrip = [ pc |-> "idle" ]
  /\ colorKey = [ pc |-> "idle" ]
  /\ borderScan = [ pc |-> "idle" ]
  /\ autoKey = [ pc |-> "idle" ]

\* No generate call is in progress and nothing has asked for credentials.
ClientIdle ==
  /\ gen = [ pc |-> "idle" ]
  /\ auth = [ pc |-> "idle" ]

\* The registry and routing state before any request.
ServerIdle ==
  /\ envTtl = Unset
  /\ DEFAULT_AUTO_TASK_4K = resolveAutoTask4k(Unset)
  /\ DEFAULT_AUTO_TASK_TTL_MS = resolveAutoTaskTtlMs(envTtl)
  /\ pollingTasks = EmptyMap
  /\ pollingTaskTimers = EmptyMap
  /\ usedIds = {}
  /\ now = 0
  /\ ticks = 0
  /\ extTasks = EmptyMap
  /\ calls = <<>>
  /\ lastGet = [ n |-> 0, arg |-> <<>>, response |-> [ content |-> <<>> ] ]
  /\ statusLog = EmptyMap
  /\ storeLog = EmptyMap
  /\ ops = 0

Init == ServerInit /\ ProgressIdle /\ ImageIdle /\ ClientIdle

Next ==
  \/ \E req \in Requests, id \in TaskIds \cup {NoId} : CallTool(req, id)
  \/ \E i \in 1..MaxCalls : ExternalLaunch(i)
  \/ \E i \in 1..MaxCalls, result \in OpResults : OpResolve(i, result)
  \/ \E i \in 1..MaxCalls, first \in StoreOutcomes, second \in StoreOutcomes :
       Continue(i, first, second)
  \/ \E d \in TimeSteps : Tick(d)
  \/ \E id \in TaskIds : TimerFire(id)

Spec == Init /\ [][Next]_vars

\* The server with auto-tasking switched on, receiving image generation
\* requests and polls; the continuation of a resolved promise is always run.
AutoInit ==
  /\ Init
  /\ DEFAULT_AUTO_TASK_4K = resolveAutoTask4k(Text(<<"o","n">>))

AutoRequests ==
  { req \in Requests :
      \/ req.name = "nano_banana_generate_image"
      \/ req.arg = <<SP, "t1", SP>> }

AutoNext ==
  \/ \E req \in AutoRequests, id \in TaskIds \cup {NoId} : CallTool(req, id)
  \/ \E i \in 1..MaxCalls : ExternalLaunch(i)
  \/ \E i \in 1..MaxCalls, result \in OpResults : OpResolve(i, result)
  \/ \E i \in 1..MaxCalls, first \in StoreOutcomes, second \in StoreOutcomes :
       Continue(i, first, second)
  \/ \E d \in TimeSteps : Tick(d)
  \/ \E id \in TaskIds : TimerFire(id)

FairSpec ==
  /\ AutoInit
  /\ [][AutoNext]_vars
  /\ WF_vars(\E i \in 1..MaxCalls, first \in StoreOutcomes,
                second \in StoreOutcomes : Continue(i, first, second))

\* ------------------------------------------- the registry operations alone
\* Any caller of the registry: the operations applied in any order, with any
\* argument.
Statuses == { "queued", "working", "completed", "failed" }

RegCreate(id) ==
  /\ ops < MaxOps
  /\ id \in TaskIds \ usedIds
  /\ SetReg(createPollingTask(Reg, id, now))
  /\ usedIds' = usedIds \cup {id}
  /\ ops' = ops + 1
  /\ UNCHANGED <<envTtl, DEFAULT_AUTO_TASK_4K, DEFAULT_AUTO_TASK_TTL_MS,
                 now, ticks, extTasks, calls, lastGet>>
  /\ UNCHANGED otherVars

RegSetStatus(id, status) ==
  /\ ops < MaxOps
  /\ SetReg(setPollingTaskStatus(Reg, id, status))
  /\ ops' = ops + 1
  /\ UNCHANGED <<envTtl, DEFAULT_AUTO_TASK_4K, DEFAULT_AUTO_TASK_TTL_MS,
                 usedIds, now, ticks, extTasks, calls, lastGet>>
  /\ UNCHANGED otherVars

RegStore(id, result) ==
  /\ ops < MaxOps
  /\ SetReg(storePollingTaskResult(Reg, id, result,
                                   DEFAULT_AUTO_TASK_TTL_MS, now))
  /\ ops' = ops + 1
  /\ UNCHANGED <<envTtl, DEFAULT_AUTO_TASK_4K, DEFAULT_AUTO_TASK_TTL_MS,
                 usedIds, now, ticks, extTasks, calls, lastGet>>
  /\ UNCHANGED otherVars

RegGet(arg) ==
  /\ ops < MaxOps
  /\ lastGet' = RecordGet(arg, handleGetPollingTask(pollingTasks, arg))
  /\ ops' = ops + 1
  /\ UNCHANGED <<envTtl, DEFAULT_AUTO_TASK_4K, DEFAULT_AUTO_TASK_TTL_MS,
                 pollingTasks, pollingTaskTimers, usedIds, now, ticks,
                 extTasks, calls, statusLog, storeLog>>
  /\ UNCHANGED otherVars

RegNext ==
  \/ \E id \in TaskIds : RegCreate(id)
  \/ \E id \in TaskIds, status \in Statuses : RegSetStatus(id, status)
  \/ \E id \in TaskIds, result \in OpResults : RegStore(id, result)
  \/ \E arg \in GetArgs : RegGet(arg)
  \/ \E d \in TimeSteps : Tick(d)
  \/ \E id \in TaskIds : TimerFire(id)

RegSpec == Init /\ [][RegNext]_vars

\* ------------------------------------------ one handler with its reporter
ProgressInit ==
  /\ ServerIdle
  /\ ImageIdle
  /\ ClientIdle
  /\ envInterval \in EnvInterval
  /\ PROGRESS_INTERVAL_MS = resolveProgressIntervalMs(envInterval)
  /\ progress = 0
  /\ disabled = FALSE
  /\ sent = <<>>
  /\ unsettled = {}
  /\ intervalId = "none"
  /\ handler = [ pc |-> "idle" ]
  /\ reportLog = <<>>

ProgressNext ==
  \/ \E path \in HandlerPaths, withSession \in BOOLEAN :
       HandlerStart(path, withSession)
  \/ HandlerAdvance
  \/ \E result \in OpResults : HandlerReturn(result)
  \/ HeartbeatTick
  \/ \E k \in 1..MaxReports, fulfilled \in BOOLEAN : SendSettles(k, fulfilled)

ProgressSpec == ProgressInit /\ [][ProgressNext]_vars

\* --------------------------------------------- the color functions alone
HexInit ==
  /\ ServerIdle
  /\ ProgressIdle
  /\ ClientIdle
  /\ autoKey = [ pc |-> "idle" ]
  /\ colorKey = [ pc |-> "idle" ]
  /\ borderScan = [ pc |-> "idle" ]
  /\ hexTrip \in { [ pc |-> "color", color |-> c ] : c \in HexColors }

HexNext == FormatColor \/ ParseColor

HexSpec == HexInit /\ [][HexNext]_vars

ColorKeyInit ==
  /\ ServerIdle
  /\ ProgressIdle
  /\ ClientIdle
  /\ autoKey = [ pc |-> "idle" ]
  /\ hexTrip = [ pc |-> "idle" ]
  /\ borderScan = [ pc |-> "idle" ]
  /\ colorKey \in
       { [ pc |-> "args", data |-> d, colors |-> c, tolerance |-> t,
           feather |-> f ] :
           d \in KeyBuffers, c \in KeyColors, t \in ToleranceArgs,
           f \in FeatherArgs }

ColorKeyNext == ApplyColorKey \/ ReapplyColorKey

ColorKeySpec == ColorKeyInit /\ [][ColorKeyNext]_vars

BorderInit ==
  /\ ServerIdle
  /\ ProgressIdle
  /\ ClientIdle
  /\ autoKey = [ pc |-> "idle" ]
  /\ hexTrip = [ pc |-> "idle" ]
  /\ colorKey = [ pc |-> "idle" ]
  /\ borderScan \in
       UNION {
         { [ pc |-> "args",
             border |-> b,
             interior |-> c,
             data |-> SolidBorderImage(z[1], z[2], b, c),
             info |-> [ width |-> z[1], height |-> z[2], channels |-> 4 ],
             options |-> o ] :
             z \in ImageSizes2D, c \in InteriorColors \ {b},
             o \in DetectOptions } : b \in BorderColors }

BorderNext == DetectBorder

BorderSpec == BorderInit /\ [][BorderNext]_vars

AutoKeyInit ==
  /\ ServerIdle
  /\ ProgressIdle
  /\ ClientIdle
  /\ hexTrip = [ pc |-> "idle" ]
  /\ colorKey = [ pc |-> "idle" ]
  /\ borderScan = [ pc |-> "idle" ]
  /\ autoKey \in
       { [ pc |-> "decoded",
           data |-> PaletteImage(z[1], z[2], p),
           info |-> [ width |-> z[1], height |-> z[2], channels |-> 4 ],
           options |-> o ] :
           z \in AutoKeySizes, p \in Palettes, o \in AutoKeyOptions }

AutoKeyNext == AutoKeySelect \/ AutoKeyComposite

AutoKeySpec == AutoKeyInit /\ [][AutoKeyNext]_vars

AuthInit ==
  /\ ServerIdle
  /\ ProgressIdle
  /\ ImageIdle
  /\ gen = [ pc |-> "idle" ]
  /\ \E env \in ServiceAccountEnv :
       auth = [ pc |-> "run",
                env |-> env,
                cachedServiceAccount |-> Null,
                cachedAuthClient |-> Null,
                constructed |-> 0,
                assignments |-> <<>>,
                callers |-> [ i \in 1..MaxClients |-> [ pc |-> "idle" ] ] ]

AuthNext ==
  \/ \E i \in 1..MaxClients : GetAuthClientCall(i)
  \/ \E i \in 1..MaxClients, fulfilled \in BOOLEAN :
       ReadFileSettles(i, fulfilled)
  \/ \E i \in 1..MaxClients : GetAuthClientResume(i)

AuthSpec == AuthInit /\ [][AuthNext]_vars

GenerateInit ==
  /\ ServerIdle
  /\ ProgressIdle
  /\ ImageIdle
  /\ auth = [ pc |-> "idle" ]
  /\ gen \in { [ pc |-> "args", args |-> a, env |-> e, parts |-> <<>>,
                 uploadedUris |-> <<>>, bucket |-> <<>>, i |-> 0,
                 net |-> <<>>,
                 out |-> [ isError |-> FALSE, message |-> <<>> ] ] :
                 a \in GenerateArgs, e \in GenerateEnv }

GenerateNext ==
  \/ GenerateStart
  \/ \E ready \in BOOLEAN : UploadBegin(ready)
  \/ \E fulfilled \in BOOLEAN : UploadSettles(fulfilled)
  \/ \E ready \in BOOLEAN : RequestBegin(ready)
  \/ \E fulfilled \in BOOLEAN, images \in { 0, 1 } :
       RequestSettles(fulfilled, images)
  \/ \E fulfilled \in BOOLEAN : OutputSettles(fulfilled)

GenerateSpec == GenerateInit /\ [][GenerateNext]_vars

\* ----------------------------------------------------------------- claims
Last(q) == q[Len(q)]

Rank(status) ==
  CASE status = "queued" -> 0 [] status = "working" -> 1 [] OTHER -> 2

Terminal(status) == status \in { "completed", "failed" }

\* C1: every polling task starts queued and its status never moves
\* backward: the statuses written to a task, in order, begin with queued,
\* never go from working to queued, and never change once completed or
\* failed; the status held in the registry is the last one written.
StatusOnlyMovesForward ==
  \A id \in DOMAIN statusLog :
    LET log == statusLog[id]
    IN  /\ Len(log) >= 1
        /\ log[1] = "queued"
        /\ \A k \in 1..(Len(log) - 1) :
             /\ Rank(log[k]) <= Rank(log[k + 1])
             /\ Terminal(log[k]) => (log[k + 1] = log[k])
        /\ (id \in DOMAIN pollingTasks) =>
             (pollingTasks[id].status = Last(log))

\* A task that went through queued, working and failed.
TaskWentThroughLifecycle ==
  \E id \in DOMAIN statusLog :
    statusLog[id] = <<"queued", "working", "failed">>

\* C2: a storePollingTaskResult call made for a task that already has a
\* stored result leaves the result and the terminal status as they were.
FirstWriteWins ==
  [][ \A id \in DOMAIN pollingTasks :
        ( /\ Len(storeLog[id]) >= 1
          /\ id \in DOMAIN storeLog'
          /\ Len(storeLog'[id]) = Len(storeLog[id]) + 1 ) =>
          /\ id \in DOMAIN pollingTasks'
          /\ pollingTasks'[id].result = pollingTasks[id].result
          /\ pollingTasks'[id].status = pollingTasks[id].status ]_vars

\* The keys handleGetPollingTask may add to the structured content.
AddedKeys == { "taskId", "taskStatus", "taskExpiresAt" }

StructuredContentOf(result) ==
  IF Has(result, "structuredContent") THEN result.structuredContent
  ELSE EmptyObject

\* The response of a poll is the stored result r with the task's status.
ReportsStored(response, r) ==
  /\ Has(response, "structuredContent")
  /\ response.structuredContent.taskStatus =
       (IF IsErrorSet(r) THEN "failed" ELSE "completed")
  /\ response.content = r.content
  /\ Has(response, "isError") = Has(r, "isError")
  /\ Has(r, "isError") => (response.isError = r.isError)
  /\ DOMAIN response = (DOMAIN r) \cup { "structuredContent" }
  /\ LET sc == response.structuredContent
         rs == StructuredContentOf(r)
     IN  /\ DOMAIN rs \subseteq DOMAIN sc
         /\ (DOMAIN sc) \ (DOMAIN rs) \subseteq AddedKeys
         /\ \A k \in DOMAIN rs : sc[k] = rs[k]

\* A poll happened in this step, for the trimmed id `id`.
Polled(id) ==
  /\ lastGet'.n # lastGet.n
  /\ Trim(lastGet'.arg) = id

\* C3: a poll of a task that is in the registry with the result r stored
\* reports completed when r.isError is not set and failed when it is, with
\* r's content and error flag unchanged and only taskId, taskStatus and
\* taskExpiresAt added to the structured content.
GetReturnsStoredResult ==
  [][ \A id \in DOMAIN pollingTasks :
        (Polled(id) /\ Len(storeLog[id]) >= 1) =>
          ReportsStored(lastGet'.response, Last(storeLog[id]).result) ]_vars

\* A poll returned a completed result together with its output URIs.
PolledCompletedResult ==
  /\ lastGet.n > 0
  /\ Has(lastGet.response, "structuredContent")
  /\ Has(lastGet.response.structuredContent, "outputImageUris")
  /\ lastGet.response.structuredContent.taskStatus = "completed"

\* C4 (as claimed): with a positive TTL T, a task whose result was stored
\* at time s is still in the registry with that result while now < s + T and
\* is gone once now > s + T.
ResultKeptExactlyForTtl ==
  DEFAULT_AUTO_TASK_TTL_MS # Null =>
    \A id \in DOMAIN storeLog :
      Len(storeLog[id]) >= 1 =>
        LET s == Last(storeLog[id])
            T == DEFAULT_AUTO_TASK_TTL_MS[1]
        IN  /\ (now < s.at + T) =>
                 /\ id \in DOMAIN pollingTasks
                 /\ pollingTasks[id].result = s.result
            /\ (now > s.at + T) => (id \notin DOMAIN pollingTasks)

\* The poll of an id finds the task.
Found(id) ==
  LET response == handleGetPollingTask(pollingTasks, id)
  IN  /\ Has(response, "structuredContent")
      /\ response.structuredContent.taskId = id

\* C5: with NANO_BANANA_AUTO_TASK_TTL_MS set to 0 no removal timer exists,
\* no task has an expiresAt, and every task ever created is found by a poll.
TtlDisabledKeepsTasks ==
  envTtl = Numeral(0) =>
    /\ DOMAIN pollingTaskTimers = {}
    /\ \A id \in usedIds :
         /\ id \in DOMAIN pollingTasks
         /\ ~Has(pollingTasks[id], "expiresAt")
         /\ Found(id)

\* With the TTL disabled, time has passed since a result was stored.
TtlDisabledTaskOutlivesStore ==
  /\ envTtl = Numeral(0)
  /\ \E id \in DOMAIN storeLog :
       /\ Len(storeLog[id]) >= 1
       /\ now > storeLog[id][1].at

\* The text of a result names the id.
Names(content, id) ==
  \E k \in 1..Len(content) :
    k + Len(id) - 1 <= Len(content) /\ SubSeq(content, k, k + Len(id) - 1) = id

\* The call whose tool ran in this step got a value, not an exception.
ToolRunReturned ==
  \A i \in DOMAIN calls' :
    ( /\ (i \notin DOMAIN calls \/ calls[i].runs # calls'[i].runs)
      /\ calls'[i].runs > 0 ) => calls'[i].outcome.kind = "value"

\* C6: a poll of an id that is not in the registry returns an error result
\* that names the id, does not throw, and leaves the registry and its timers
\* as they were.
GetUnknownTaskIsError ==
  [][ ( /\ lastGet'.n # lastGet.n
        /\ Trim(lastGet'.arg) # <<>>
        /\ Trim(lastGet'.arg) \notin DOMAIN pollingTasks ) =>
        /\ IsErrorSet(lastGet'.response)
        /\ Names(lastGet'.response.content, Trim(lastGet'.arg))
        /\ ToolRunReturned
        /\ pollingTasks' = pollingTasks
        /\ pollingTaskTimers' = pollingTaskTimers ]_vars

\* A poll of a task that had expired returned the error.
PolledExpiredTask ==
  /\ lastGet.n > 0
  /\ Trim(lastGet.arg) \in usedIds
  /\ Trim(lastGet.arg) \notin DOMAIN pollingTasks
  /\ IsErrorSet(lastGet.response)

\* The operation of registry task `id` is still in flight.
Unresolved(id) ==
  \E i \in DOMAIN calls :
    /\ "registry" \in calls[i].paths
    /\ calls[i].task = id
    /\ calls[i].pc = "running"

\* C7: a poll of a task whose operation has not resolved reports queued or
\* working, and the response has neither a result payload nor an error flag.
GetUnresolvedTaskHasNoResult ==
  [][ \A id \in DOMAIN pollingTasks :
        (Polled(id) /\ Unresolved(id)) =>
          /\ DOMAIN lastGet'.response = { "content", "structuredContent" }
          /\ DOMAIN lastGet'.response.structuredContent =
               { "taskId", "taskStatus" }
          /\ lastGet'.response.structuredContent.taskStatus \in
               { "queued", "working" }
          /\ lastGet'.response.content =
               <<"Task ">> \o id \o
               <<" status: ", lastGet'.response.structuredContent.taskStatus,
                 ".">> ]_vars

\* A poll reported a task as working.
PolledWorkingTask ==
  /\ lastGet.n > 0
  /\ Has(lastGet.response, "structuredContent")
  /\ lastGet.response.structuredContent.taskStatus = "working"

PathNames == { "external", "registry", "sync" }

\* C8: every tools/call request is handled by exactly one of the external
\* task store, a registry polling task and synchronous execution: it has an
\* entry in the task store exactly on the first path, a polling task exactly
\* on the second, and its tool is never run twice.
ExactlyOnePath ==
  /\ \A i \in DOMAIN calls :
       /\ calls[i].paths \subseteq PathNames
       /\ Cardinality(calls[i].paths) = 1
       /\ (ExtId(i) \in DOMAIN extTasks) = (calls[i].paths = {"external"})
       /\ (calls[i].task \in usedIds) = (calls[i].paths = {"registry"})
       /\ calls[i].runs <= 1
       /\ (calls[i].pc = "done") => (calls[i].runs = 1)
  /\ DOMAIN extTasks \subseteq { ExtId(i) : i \in DOMAIN calls }
  /\ Cardinality(usedIds) =
       Cardinality({ i \in DOMAIN calls : calls[i].paths = {"registry"} })

\* Two finished calls went through two different paths.
TwoPathsTaken ==
  \E i, j \in DOMAIN calls :
    /\ calls[i].paths # calls[j].paths
    /\ calls[i].pc = "done" /\ calls[j].pc = "done"

\* The request asks for a task and the auto-task policy matches it as well.
ExplicitAndAuto(c) ==
  /\ c.req.task
  /\ DEFAULT_AUTO_TASK_4K
  /\ c.req.name = "nano_banana_generate_image"
  /\ normalizeImageSize(c.req.imageSize) = Some(<<"4","K">>)

\* C9: a request that asks for a task while the auto-task policy matches is
\* handled by the external task store only: a task is created there, the
\* task handle is the response, and no polling task is created.
ExplicitTaskWins ==
  [][ \A i \in DOMAIN calls' :
        ExplicitAndAuto(calls'[i]) =>
          /\ calls'[i].paths = {"external"}
          /\ ExtId(i) \in DOMAIN extTasks'
          /\ (i \notin DOMAIN calls) =>
               (pollingTasks' = pollingTasks /\ usedIds' = usedIds)
          /\ (calls'[i].pc # "created") =>
               /\ calls'[i].response.kind = "task"
               /\ calls'[i].response.task.taskId = ExtId(i) ]_vars

\* Such a request has run to its end.
ExplicitAndAutoDone ==
  \E i \in DOMAIN calls :
    ExplicitAndAuto(calls[i]) /\ calls[i].pc = "done"

\* The registry holds the outcome of call i's operation, stored once.
OutcomeStored(i) ==
  LET id == calls[i].task
  IN  /\ Len(storeLog[id]) = 1
      /\ storeLog[id][1].result = calls[i].outcome.result
      /\ Terminal(Last(statusLog[id]))

\* The operation of some auto-tasked call has resolved and its continuation
\* has not run yet.
SomeAutoTaskResolved ==
  \E i \in DOMAIN calls :
    "registry" \in calls[i].paths /\ calls[i].pc = "resolved"

\* Every auto-tasked call whose operation has resolved has its outcome in
\* the registry.
ResolvedAutoTasksStored ==
  \A i \in DOMAIN calls :
    ("registry" \in calls[i].paths /\ calls[i].pc \in {"resolved", "done"})
      => OutcomeStored(i)

\* C10: an auto-tasked call answers with the new task id while its
\* operation is still running, the operation runs exactly once, and once it
\* has resolved the task reaches completed or failed with the operation's
\* result stored.
AutoTaskRunsOnceAndStores ==
  /\ [](\A i \in DOMAIN calls :
          "registry" \in calls[i].paths =>
            /\ calls[i].runs = 1
            /\ calls[i].response.kind = "result"
            /\ calls[i].response.result.structuredContent.taskId =
                 calls[i].task
            /\ (calls[i].pc = "running") => (storeLog[calls[i].task] = <<>>)
            /\ (calls[i].pc = "done") => OutcomeStored(i))
  /\ SomeAutoTaskResolved ~> ResolvedAutoTasksStored

\* An auto-tasked call whose failed operation has been stored.
AutoTaskStoredFailure ==
  \E i \in DOMAIN calls :
    /\ "registry" \in calls[i].paths
    /\ calls[i].pc = "done"
    /\ OutcomeStored(i)
    /\ IsErrorSet(calls[i].outcome.result)

\* C11: a polling task is still queued when the response of the call that
\* submitted it is built, so the response's structuredContent.taskStatus is
\* queued, as its text says.
SubmissionResponseSaysQueued ==
  \A i \in DOMAIN calls :
    "registry" \in calls[i].paths =>
      calls[i].response.result.structuredContent.taskStatus = "queued"

\* The background run of call i met a failure: its tool run rejected, or a
\* store operation did.
BackgroundFailed(i) ==
  calls[i].outcome.kind = "throw" \/ calls[i].rejections > 0

\* The task of call i holds a failed result.
FailedResultRecorded(i) ==
  IF "external" \in calls[i].paths
  THEN /\ extTasks[calls[i].task].status = "failed"
       /\ Has(extTasks[calls[i].task], "result")
       /\ IsErrorSet(extTasks[calls[i].task].result)
  ELSE /\ Last(statusLog[calls[i].task]) = "failed"
       /\ IsErrorSet(Last(storeLog[calls[i].task]).result)

\* C12: every failure raised during the background run of a task, on the
\* registry path and on the task-store path, a failing store operation
\* included, ends with a failed result recorded for the task and no
\* exception leaving the background run.
BackgroundFailuresRecorded ==
  \A i \in DOMAIN calls :
    (/\ calls[i].paths \cap {"registry", "external"} # {}
     /\ calls[i].pc = "done"
     /\ BackgroundFailed(i))
      => (~calls[i].escaped /\ FailedResultRecorded(i))

\* The report() calls made by the heartbeat, among those logged.
HeartbeatReports(log) ==
  { k \in DOMAIN log : log[k].origin = "heartbeat" }

\* The report() calls that sent nothing.
SuppressedReports ==
  { k \in DOMAIN reportLog : ~reportLog[k].emitted }

\* C13: once handleGenerateImage or handleMakeTransparent has produced its
\* result, on the success path, an error path or the auto-transparency
\* sub-path, the heartbeat timer it started is cancelled, and no heartbeat
\* report is made after the handler has returned.
HeartbeatStoppedOnReturn ==
  /\ (handler.pc = "returned") => (intervalId # "set")
  /\ \A k \in HeartbeatReports(reportLog) : ~reportLog[k].returned

\* The auto-transparency sub-path ended in an error after the heartbeat had
\* ticked.
TransparencyFailedAfterHeartbeat ==
  /\ handler.pc = "returned"
  /\ handler.path = "transparency"
  /\ IsErrorSet(handler.result)
  /\ intervalId = "cleared"
  /\ Cardinality(HeartbeatReports(reportLog)) >= 2

\* C14: once a send has failed for a session the session stays disabled, no
\* later report() call, explicit or heartbeat, sends anything, and the
\* failure changes nothing in the handler or its result.
FailedSessionStaysSilent ==
  [][ /\ disabled => (disabled' /\ sent' = sent /\ progress' = progress)
      /\ (~disabled /\ disabled') => (handler' = handler) ]_vars

\* After a failed send an explicit report and a heartbeat tick were both
\* suppressed, and the handler returned its successful result.
BothKindsSuppressed ==
  /\ disabled
  /\ \E k \in SuppressedReports : reportLog[k].origin = "explicit"
  /\ \E k \in SuppressedReports : reportLog[k].origin = "heartbeat"
  /\ handler.pc = "returned"
  /\ ~IsErrorSet(handler.result)

\* C15 as stated: whenever a progress session exists, startHeartbeat has
\* emitted one report at once.
HeartbeatReportsImmediately ==
  (handler.pc # "idle" /\ handler.session) =>
    /\ Len(reportLog) >= 1
    /\ reportLog[1].origin = "heartbeat"
    /\ reportLog[1].emitted

\* C15, amended: with a progress session and a positive
\* PROGRESS_INTERVAL_MS, startHeartbeat(message) emits one report at once
\* and sets the timer, every tick of the timer calls report(message) again,
\* and no heartbeat report is made once the timer is cleared; with
\* PROGRESS_INTERVAL_MS = 0 startHeartbeat emits nothing and sets no timer.
HeartbeatWhenEnabled ==
  /\ []((handler.pc # "idle" /\ handler.session) =>
          IF PROGRESS_INTERVAL_MS > 0
          THEN /\ reportLog[1].origin = "heartbeat"
               /\ reportLog[1].emitted
               /\ sent[1] = Notification(1, HeartbeatMessage(handler.path))
               /\ intervalId \in { "set", "cleared" }
          ELSE /\ intervalId = "none"
               /\ HeartbeatReports(reportLog) = {})
  /\ [][ /\ (handler.pc # "idle" /\ intervalId # "set") =>
              (HeartbeatReports(reportLog') = HeartbeatReports(reportLog))
         /\ (handler.pc # "idle" /\
             HeartbeatReports(reportLog') # HeartbeatReports(reportLog)) =>
              (~disabled =>
                 sent' = Append(sent,
                           Notification(progress + 1,
                                        HeartbeatMessage(handler.path)))) ]_vars

\* The heartbeat reported at once, ticked, and was stopped.
HeartbeatTickedThenStopped ==
  /\ PROGRESS_INTERVAL_MS = 5000
  /\ intervalId = "cleared"
  /\ Cardinality(HeartbeatReports(reportLog)) >= 2
  /\ reportLog[2].origin = "explicit"

\* C16: the k-th notification emitted by a session carries progress k, and
\* the counter equals the number of notifications emitted: a suppressed
\* report does not advance it.
ProgressCountsEmissions ==
  /\ \A k \in DOMAIN sent : sent[k].progress = k
  /\ progress = Len(sent)

\* Several notifications were emitted and a later report was suppressed.
EmittedThenSuppressed ==
  /\ Len(sent) >= 3
  /\ SuppressedReports # {}

\* C19: for every Color c with byte components parseHexColor(
\* formatHexColor(c)) is c, and formatHexColor yields "#" followed by
\* exactly six lowercase hex digits.
HexRoundTrip ==
  /\ (hexTrip.pc \in { "formatted", "parsed" }) =>
       /\ Len(hexTrip.text) = 7
       /\ hexTrip.text[1] = "#"
       /\ \A k \in 2..7 : \E d \in 1..16 : HexDigits[d] = hexTrip.text[k]
  /\ (hexTrip.pc = "parsed") =>
       /\ hexTrip.parsed.kind = "value"
       /\ hexTrip.parsed.color = hexTrip.color

\* A color with a component below 16 and one above 159 made the round trip.
SmallAndLargeBytesParsed ==
  /\ hexTrip.pc = "parsed"
  /\ hexTrip.color.r < 16
  /\ hexTrip.color.g = 171
  /\ hexTrip.text[4] = "a"

\* The squared distance from the pixel at offset i of the input buffer to
\* the nearest reference color.
NearestSq(i) ==
  LET p == colorKey.data
      c == colorKey.colors
      sq(k) == (p[i + 1] - c[k].r) * (p[i + 1] - c[k].r) +
               (p[i + 2] - c[k].g) * (p[i + 2] - c[k].g) +
               (p[i + 3] - c[k].b) * (p[i + 3] - c[k].b)
  IN  CHOOSE m \in { sq(k) : k \in DOMAIN c } :
        \A k \in DOMAIN c : m <= sq(k)

KeyedPixels == { i \in 0..(Len(colorKey.data) - 1) : i % 4 = 0 }

\* C17 as stated: with a tolerance that covers the whole color space the
\* output alpha is 0 for every pixel, whatever the colors and the feather.
FullToleranceClearsEverything ==
  (/\ colorKey.pc = "done"
   /\ colorKey.tolerance # NoArg
   /\ colorKey.tolerance[1] * colorKey.tolerance[1] >= MaxDistSq)
    => \A i \in KeyedPixels : colorKey.out.data[i + 4] = 0

\* C17, amended: the tolerance is clamped to 255, which does not cover the
\* whole color space; with a tolerance of 255 or more the output alpha is 0
\* for every pixel within distance 255 of a reference color, for every
\* feather value.
ClampedToleranceClearsWithin255 ==
  (/\ colorKey.pc = "done"
   /\ colorKey.tolerance # NoArg
   /\ colorKey.tolerance[1] >= 255)
    => \A i \in KeyedPixels :
         (NearestSq(i) <= 255 * 255) => (colorKey.out.data[i + 4] = 0)

\* An opaque pixel exactly 255 away from the reference color was cleared
\* under the largest tolerance and a feather.
PixelAtDistance255Cleared ==
  /\ colorKey.pc = "done"
  /\ colorKey.tolerance = <<442>>
  /\ colorKey.feather = <<300>>
  /\ \E i \in KeyedPixels :
       /\ NearestSq(i) = 255 * 255
       /\ colorKey.data[i + 4] = 255
       /\ colorKey.out.data[i + 4] = 0

\* The tolerance and feather the function works with.
KeyTolerance ==
  clampByte(IF colorKey.tolerance = NoArg THEN 12 ELSE colorKey.tolerance[1])

KeyFeather ==
  clampByte(IF colorKey.feather = NoArg THEN 0 ELSE colorKey.feather[1])

\* m is a * (sqrt(d2) - t) / f rounded to the nearest whole number.
IsScaled(m, a, d2, t, f) ==
  /\ 0 <= m /\ m <= a
  /\ (a > 0) =>
       /\ SqrtAtLeast(d2, (2 * m - 1) * f + 2 * a * t, 2 * a)
       /\ ~SqrtAtLeast(d2, (2 * m + 1) * f + 2 * a * t, 2 * a)

\* C20: each pixel is decided on its own from its least squared distance d2
\* to a reference color: alpha 0 if d2 <= tolerance^2; the original alpha
\* scaled by (sqrt(d2) - tolerance) / feather if feather > 0 and
\* d2 < (tolerance + feather)^2; the original alpha otherwise.  The color
\* channels are left alone.
PixelRuleHolds ==
  (colorKey.pc = "done") =>
    /\ colorKey.out.kind = "value"
    /\ Len(colorKey.out.data) = Len(colorKey.data)
    /\ \A i \in KeyedPixels :
         LET d2 == NearestSq(i)
             a == colorKey.data[i + 4]
             m == colorKey.out.data[i + 4]
             t == KeyTolerance
             f == KeyFeather
         IN  /\ \A k \in 1..3 : colorKey.out.data[i + k] = colorKey.data[i + k]
             /\ IF d2 <= t * t THEN m = 0
                ELSE IF f > 0 /\ d2 < (t + f) * (t + f)
                THEN IsScaled(m, a, d2, t, f)
                ELSE m = a

\* A two-pixel buffer whose first pixel fell in the feather band and was
\* scaled to a value strictly between 0 and its alpha, and whose second
\* pixel kept its alpha.
FeatheredAndUntouchedPixels ==
  /\ colorKey.pc = "done"
  /\ Len(colorKey.data) = 8
  /\ colorKey.out.data[4] > 0
  /\ colorKey.out.data[4] < colorKey.data[4]
  /\ NearestSq(4) >= (KeyTolerance + KeyFeather) * (KeyTolerance + KeyFeather)
  /\ colorKey.out.data[8] = colorKey.data[8]

\* coverage 1.0
FullCoverage(out) == out.coverage.num = out.coverage.den

ScanStep ==
  IF borderScan.options.quantizeStep = NoArg THEN 8
  ELSE IF borderScan.options.quantizeStep[1] < 1 THEN 1
  ELSE borderScan.options.quantizeStep[1]

\* c is the byte nearest to v among the multiples of the step, 255 standing
\* in for a multiple above it.
NearestStep(c, v) ==
  /\ c \in 0..255
  /\ c % ScanStep = 0 \/ c = 255
  /\ 2 * (c - v) <= ScanStep
  /\ 2 * (v - c) <= ScanStep

OneTimerAFullTtlAfterLatestStore ==
  \A id \in DOMAIN pollingTaskTimers :
    /\ id \in DOMAIN pollingTasks
    /\ DEFAULT_AUTO_TASK_TTL_MS # Null
    /\ Len(storeLog[id]) >= 1
    /\ pollingTaskTimers[id] =
         Last(storeLog[id]).at + DEFAULT_AUTO_TASK_TTL_MS[1]

\* C27: setPollingTaskStatus and storePollingTaskResult called with a task
\* id that is not in the registry leave the registry and the removal timers
\* exactly as they were.
UnknownIdUpdateChangesNothing ==
  [][ \A id \in TaskIds :
        ( /\ id \notin DOMAIN pollingTasks
          /\ \/ \E status \in Statuses : RegSetStatus(id, status)
             \/ \E result \in OpResults : RegStore(id, result) )
        => /\ pollingTasks' = pollingTasks
           /\ pollingTaskTimers' = pollingTaskTimers ]_vars

\* A task was created, given a result and removed by its timer, and a
\* further update that left no trace was made afterwards.
UpdateAfterRemovalIgnored ==
  /\ usedIds = { <<"t1">> }
  /\ <<"t1">> \notin DOMAIN pollingTasks
  /\ Len(statusLog[<<"t1">>]) = 2
  /\ Len(storeLog[<<"t1">>]) = 1
  /\ lastGet.n = 0
  /\ ops = 3

\* C29: a removal timer exists for a task id only while that task is in the
\* registry with status completed or failed and an expiry instant, and a
\* task leaves the registry only from one of these two statuses; a task
\* that is queued or working is never removed.
OnlySettledTasksAreRemoved ==
  /\ [](\A id \in DOMAIN pollingTaskTimers :
          /\ id \in DOMAIN pollingTasks
          /\ Terminal(pollingTasks[id].status)
          /\ Has(pollingTasks[id], "expiresAt"))
  /\ [][ \A id \in DOMAIN pollingTasks :
           (id \notin DOMAIN pollingTasks')
             => Terminal(pollingTasks[id].status) ]_vars

\* One task has been removed by its timer while another, still working, is
\* in the registry without a timer.
WorkingTaskOutlivesRemovedOne ==
  /\ \E id \in usedIds : id \notin DOMAIN pollingTasks
  /\ \E id \in DOMAIN pollingTasks :
       /\ pollingTasks[id].status = "working"
       /\ id \notin DOMAIN pollingTaskTimers

\* C30: a polling task holds a result exactly when its status is completed
\* or failed, its status is failed exactly when the isError flag of that
\* result is set, and it has an expiry instant only if it holds a result.
ResultStatusAndExpiryAgree ==
  \A id \in DOMAIN pollingTasks :
    LET task == pollingTasks[id]
    IN  /\ Has(task, "result") <=> Terminal(task.status)
        /\ Has(task, "result") =>
             ((task.status = "failed") <=> IsErrorSet(task.result))
        /\ ~Has(task, "result") => task.status # "failed"
        /\ Has(task, "expiresAt") => Has(task, "result")

\* A failed task and a completed task are in the registry, each with its
\* result and its expiry instant.
FailedAndCompletedTasksStored ==
  /\ \E id \in DOMAIN pollingTasks :
       /\ pollingTasks[id].status = "failed"
       /\ Has(pollingTasks[id], "expiresAt")
  /\ \E id \in DOMAIN pollingTasks :
       /\ pollingTasks[id].status = "completed"
       /\ Has(pollingTasks[id], "expiresAt")

\* C28: the compositor leaves the three color components of every pixel as
\* they were and never gives a pixel a larger alpha than it had, on a first
\* application and on an application to its own output; a pixel whose alpha
\* is 0 still has alpha 0 after the compositor is applied again.
AlphaNeverRaisedColorUntouched ==
  /\ (colorKey.pc \in { "done", "again" }) =>
       /\ colorKey.out.kind = "value"
       /\ \A i \in KeyedPixels :
            /\ \A k \in 1..3 : colorKey.out.data[i + k] = colorKey.data[i + k]
            /\ colorKey.out.data[i + 4] <= colorKey.data[i + 4]
  /\ (colorKey.pc = "again") =>
       /\ colorKey.again.kind = "value"
       /\ \A i \in KeyedPixels :
            /\ \A k \in 1..3 :
                 colorKey.again.data[i + k] = colorKey.out.data[i + k]
            /\ colorKey.again.data[i + 4] <= colorKey.out.data[i + 4]
            /\ (colorKey.out.data[i + 4] = 0) =>
                 (colorKey.again.data[i + 4] = 0)

\* The compositor ran twice on a two-pixel image: the first pixel was
\* cleared by the first run and is still clear, the second kept a partial
\* alpha through both runs.
ClearedPixelStaysClear ==
  /\ colorKey.pc = "again"
  /\ Len(colorKey.data) = 8
  /\ colorKey.data[4] > 0
  /\ colorKey.out.data[4] = 0
  /\ colorKey.again.data[4] = 0
  /\ colorKey.data[8] = 128
  /\ colorKey.again.data[8] = 128

\* The detector returned at least one color and its coverage is 0.5 or more.
DetectorTrusted ==
  /\ Len(autoKey.detected.colors) >= 1
  /\ 2 * autoKey.detected.coverage.num >= autoKey.detected.coverage.den

\* C21: applyAutoKeyTransparency keys on the colors of the detector exactly
\* when the detector returned at least one color with coverage 0.5 or more;
\* otherwise it keys on the fallback color alone and reports usedFallback,
\* and without a fallback color it throws and returns no output image.
FallbackExactlyWhenDetectorUnreliable ==
  (autoKey.pc = "done") =>
    /\ (autoKey.out.kind = "value") =>
         LET keyedOn == IF DetectorTrusted THEN autoKey.detected.colors
                        ELSE << autoKey.options.fallbackColor[1] >>
         IN  /\ DetectorTrusted \/ autoKey.options.fallbackColor # NoArg
             /\ autoKey.out.colors = keyedOn
             /\ autoKey.out.usedFallback = ~DetectorTrusted
             /\ autoKey.out.outputBuffer =
                  applyMultiColorKeyToRaw(autoKey.data, 4, keyedOn,
                                          autoKey.tolerance,
                                          autoKey.options.feather).data
    /\ (autoKey.out.kind = "throw") =>
         /\ ~DetectorTrusted
         /\ autoKey.options.fallbackColor = NoArg
         /\ ~Has(autoKey.out, "outputBuffer")
    /\ (~DetectorTrusted /\ autoKey.options.fallbackColor = NoArg) =>
         autoKey.out.kind = "throw"

\* The detector's best color covers exactly half of the samples, a fallback
\* color was supplied, and the image was keyed on the detector's color.
HalfCoverageKeepsDetectedColors ==
  /\ autoKey.pc = "done"
  /\ autoKey.out.kind = "value"
  /\ 2 * autoKey.detected.coverage.num = autoKey.detected.coverage.den
  /\ autoKey.options.fallbackColor # NoArg
  /\ ~autoKey.out.usedFallback
  /\ autoKey.out.colors = autoKey.detected.colors

\* C22: without a tolerance argument the tolerance is
\* clampByte(ceil(sqrt(p)) + 6), p being the element at index floor(0.9 n)
\* of the n least squared distances from the border samples to the selected
\* colors in ascending order; the index is below n, and the tolerance is a
\* number between 6 and 255.
EstimatedToleranceIsClampedPercentile ==
  (autoKey.pc \in { "selected", "done" } /\ Has(autoKey, "tolerance") /\
   autoKey.options.tolerance = NoArg) =>
    LET samples == autoKey.detected.samples
        n == Len(samples)
        index == (9 * n) \div 10
        dist(k) == SampleDistSq(samples[k], autoKey.selectedColors)
        below(v) == Cardinality({ k \in 1..n : dist(k) < v })
        upTo(v) == Cardinality({ k \in 1..n : dist(k) <= v })
    IN  /\ n >= 1
        /\ index < n
        /\ autoKey.tolerance # Null
        /\ autoKey.tolerance[1] \in 6..255
        /\ \E k \in 1..n :
             LET p == dist(k)
                 q == autoKey.tolerance[1] - 6
             IN  /\ below(p) <= index
                 /\ index < upTo(p)
                 /\ IF q < 249
                    THEN q * q >= p /\ (q = 0 \/ (q - 1) * (q - 1) < p)
                    ELSE 248 * 248 < p

\* A tolerance was estimated from samples that lie near, but not on, the
\* selected colors: it is above 6 and below 255.
ToleranceEstimatedBetweenBounds ==
  /\ autoKey.pc = "done"
  /\ autoKey.options.tolerance = NoArg
  /\ autoKey.out.kind = "value"
  /\ autoKey.tolerance[1] > 6
  /\ autoKey.tolerance[1] < 255

\* C24: the auth client is built and assigned to the cache once per
\* process, whatever the interleaving of the calls that reach getAuthClient,
\* and every call is handed that one client.
AuthClientInitializedOnce ==
  (auth.pc = "run") =>
    /\ Len(auth.assignments) <= 1
    /\ \A i \in DOMAIN auth.callers :
         (auth.callers[i].pc = "done") =>
           (auth.callers[i].client = auth.cachedAuthClient)

\* C23: when the generation request of a call is sent, every reference
\* image given by path has been uploaded, one after the other in input
\* order, each upload finished before the next began; the request carries
\* the URI of every uploaded image; after a failed upload no generation
\* request is sent.
UploadsCompleteBeforeGeneration ==
  (gen.pc # "idle") =>
    \A k \in DOMAIN gen.net :
      /\ (gen.net[k].kind = "generate-sent") =>
           LET n == Len(gen.args.referenceImagePaths)
               parts == gen.net[k].parts
           IN  /\ k = 2 * n + 1
               /\ \A j \in 1..n :
                    /\ gen.net[2 * j - 1].kind = "upload-sent"
                    /\ gen.net[2 * j - 1].ref = j
                    /\ gen.net[2 * j].kind = "upload-done"
                    /\ gen.net[2 * j].ref = j
               /\ Len(gen.uploadedUris) = n
               /\ \A j \in 1..n :
                    \E q \in DOMAIN parts :
                      /\ parts[q].kind = "fileData"
                      /\ parts[q].value = gen.uploadedUris[j]
      /\ (gen.net[k].kind = "upload-failed") =>
           \A later \in DOMAIN gen.net :
             gen.net[later].kind # "generate-sent"

\* A call with a prompt and two reference images has sent its generation
\* request, with three parts.
TwoUploadsThenGeneration ==
  /\ gen.pc = "requestWait"
  /\ Len(gen.args.referenceImagePaths) = 2
  /\ Len(gen.net) = 5
  /\ gen.net[5].kind = "generate-sent"
  /\ Len(gen.net[5].parts) = 3

\* C26: a generate call that ends with a missing-bucket error, for the
\* reference bucket or for the output bucket, has sent nothing to the
\* network: no upload and no generation request.
MissingBucketFailsBeforeNetwork ==
  ( /\ gen.pc = "done"
    /\ gen.out.isError
    /\ gen.out.message \in { RefBucketMissing, OutputBucketMissing } )
    => gen.net = <<>>


====
